---- MODULE Spec2Model ----
(***************************************************************************)
(* Model of the photo gallery's Deno server (src/server.ts): start-up,     *)
(* the session token, the cookie parser and the request handler; and of    *)
(* the manifest generator (src/unnamed/part_000): the dimension probe, the *)
(* reconciler and the generation run.                                      *)
(*                                                                         *)
(* Strings are TLC strings; a character is a string of length one.  The    *)
(* string primitives of JavaScript that the server uses (split, trim,      *)
(* join, startsWith, slice) are defined on them from Len, SubSeq and \o.   *)
(***************************************************************************)
EXTENDS Integers, Sequences, FiniteSets, TLC

(***************************************************************************)
(* JavaScript string primitives                                            *)
(***************************************************************************)
charAt(s, i) == SubSeq(s, i, i)

slice(s, from) == SubSeq(s, from + 1, Len(s))

startsWith(s, prefix) ==
  /\ Len(s) >= Len(prefix)
  /\ SubSeq(s, 1, Len(prefix)) = prefix

\* Position of the first occurrence of the character c in s at or after
\* position i (1-based); 0 when there is none.
RECURSIVE indexFrom(_, _, _)
indexFrom(s, c, i) ==
  IF i > Len(s) THEN 0
  ELSE IF charAt(s, i) = c THEN i
  ELSE indexFrom(s, c, i + 1)

indexOf(s, c) == indexFrom(s, c, 1)

\* String.prototype.split(sep) for a one-character separator: always at
\* least one piece, empty pieces kept.
RECURSIVE split(_, _)
split(s, sep) ==
  LET i == indexOf(s, sep)
  IN  IF i = 0 THEN <<s>>
      ELSE <<SubSeq(s, 1, i - 1)>> \o split(SubSeq(s, i + 1, Len(s)), sep)

\* Array.prototype.join(sep)
RECURSIVE join(_, _)
join(parts, sep) ==
  IF Len(parts) = 0 THEN ""
  ELSE IF Len(parts) = 1 THEN parts[1]
  ELSE parts[1] \o sep \o join(Tail(parts), sep)

isWhiteSpace(c) == c \in {" ", "\t", "\n", "\r"}

RECURSIVE trimStart(_)
trimStart(s) ==
  IF Len(s) > 0 /\ isWhiteSpace(charAt(s, 1))
  THEN trimStart(SubSeq(s, 2, Len(s)))
  ELSE s

RECURSIVE trimEnd(_)
trimEnd(s) ==
  IF Len(s) > 0 /\ isWhiteSpace(charAt(s, Len(s)))
  THEN trimEnd(SubSeq(s, 1, Len(s) - 1))
  ELSE s

\* String.prototype.trim()
trim(s) == trimEnd(trimStart(s))

endsWith(s, suffix) ==
  /\ Len(s) >= Len(suffix)
  /\ SubSeq(s, Len(s) - Len(suffix) + 1, Len(s)) = suffix

UpperCase == "ABCDEFGHIJKLMNOPQRSTUVWXYZ"

LowerCase == "abcdefghijklmnopqrstuvwxyz"

\* The lower-case letter of every upper-case letter.
LowerCaseOf ==
  [c \in {charAt(UpperCase, i) : i \in 1..Len(UpperCase)} |->
     charAt(LowerCase, indexOf(UpperCase, c))]

\* String.prototype.toLowerCase() on ASCII
RECURSIVE toLowerCase(_)
toLowerCase(s) ==
  IF Len(s) = 0 THEN ""
  ELSE LET c == charAt(s, 1)
       IN  (IF c \in DOMAIN LowerCaseOf THEN LowerCaseOf[c] ELSE c)
             \o toLowerCase(SubSeq(s, 2, Len(s)))

(***************************************************************************)
(* Encodings: btoa / toBase64 and the hex encoding of the default secret   *)
(***************************************************************************)
Base64Alphabet ==
  "ABCDEFGHIJKLMNOPQRSTUVWXYZabcdefghijklmnopqrstuvwxyz0123456789+/"

sextet(n) == charAt(Base64Alphabet, n + 1)

\* btoa on a sequence of bytes: three bytes give four characters, a final
\* group of one or two bytes is padded with '='.
RECURSIVE btoa(_)
btoa(bytes) ==
  IF Len(bytes) = 0 THEN ""
  ELSE IF Len(bytes) = 1 THEN
    sextet(bytes[1] \div 4) \o sextet((bytes[1] % 4) * 16) \o "=="
  ELSE IF Len(bytes) = 2 THEN
    sextet(bytes[1] \div 4)
      \o sextet(((bytes[1] % 4) * 16) + (bytes[2] \div 16))
      \o sextet((bytes[2] % 16) * 4) \o "="
  ELSE
    sextet(bytes[1] \div 4)
      \o sextet(((bytes[1] % 4) * 16) + (bytes[2] \div 16))
      \o sextet(((bytes[2] % 16) * 4) + (bytes[3] \div 64))
      \o sextet(bytes[3] % 64)
      \o btoa(SubSeq(bytes, 4, Len(bytes)))

toBase64(buffer) == btoa(buffer)

HexDigits == "0123456789abcdef"

\* byte.toString(16).padStart(2, '0')
hexByte(b) == charAt(HexDigits, (b \div 16) + 1) \o charAt(HexDigits, (b % 16) + 1)

RECURSIVE toHex(_)
toHex(bytes) ==
  IF Len(bytes) = 0 THEN "" ELSE hexByte(bytes[1]) \o toHex(Tail(bytes))

(***************************************************************************)
(* State                                                                   *)
(***************************************************************************)
VARIABLES
  env,             \* the process environment: GALLERY_PASSWORD, SESSION_SECRET
  pc,              \* "boot", "exited", "listening" or "responded"
  PASSWORD,        \* module constant of server.ts, set at start-up
  SESSION_SECRET,  \* module constant of server.ts, set at start-up
  EXPECTED_TOKEN,  \* module constant of server.ts, set at start-up
  req,             \* the request being answered
  resp,            \* the response to it
  served,          \* kinds of responses sent so far (history)
  probed,          \* the handler's answers to the probe requests, taken
                   \* just before the last request was served (history)
  gpc,             \* the generator's position
  run,             \* the number of the generation run
  encoded,         \* the JPEG structure the buffer was encoded from, if any
  buffer,          \* the bytes handed to a dimension parser
  entry,           \* the reconciliation entry handed to finalizePhotoEntry
  result,          \* what the parser or finalizePhotoEntry returned
  tree,            \* the image files under the photo root
  options,         \* thumbnailSuffix and fullSuffix of the run
  files,           \* collectImageFiles' result, in traversal order
  fileIndex,       \* number of files buildPhotosFromFiles has merged
  entries,         \* the entries Map, in insertion order; sorted once built
  photoCounter,    \* main's photoCounter
  photos,          \* the photos array of the manifest
  firstRun,        \* the files, keys and photos of the first run (history)
  argv,            \* process.argv.slice(2) of the generator
  environment,     \* process.env of the generator
  photoRoot,       \* "present", "missing" or "unreadable": PHOTOS_DIR on disk
  settings,        \* what main resolves from the arguments and environment
  existing,        \* the files at the output paths before the run
  outputFiles,     \* the files at the output paths
  writes,          \* the calls of fs.writeFile so far (history)
  exitCode,        \* the exit code of the process, once it has ended
  loaded,          \* what the client's fetchManifest made of the document
  inFlight,        \* the files whose probe is awaited
  scanOffset,      \* parseJpegDimensions' offset
  iterations,      \* the offset at the head of every loop turn so far (history)
  cpc,             \* the client: "closed", "loading", then the handler run last
  folders,         \* app.js folders
  currentFolderIndex,  \* app.js currentFolderIndex
  currentPhotos,   \* app.js currentPhotos
  currentPhotoIndex,   \* app.js currentPhotoIndex
  detailHidden,    \* whether #detail-view carries the class "hidden"
  historyStates    \* the states of the session history's entries

serverVars ==
  <<env, pc, PASSWORD, SESSION_SECRET, EXPECTED_TOKEN, req, resp, served, probed>>

generatorVars ==
  <<gpc, run, encoded, buffer, entry, result, tree, options, files, fileIndex, entries,
    photoCounter, photos, firstRun>>

mainVars ==
  <<argv, environment, photoRoot, settings, existing, outputFiles, writes, exitCode,
    loaded>>

scanVars == <<inFlight, scanOffset, iterations>>

clientVars ==
  <<cpc, folders, currentFolderIndex, currentPhotos, currentPhotoIndex, detailHidden,
    historyStates>>

otherVars == <<mainVars, scanVars, clientVars>>

vars == <<serverVars, generatorVars, otherVars>>

\* A value that may be absent (undefined / null): <<>> or <<v>>.
None == <<>>
Some(v) == <<v>>

COOKIE_NAME == "gallery_session"

DEFAULT_PASSWORD == "yasnafelix2024"

DEFAULT_SALT == "wedding-gallery-secret"

(***************************************************************************)
(* SHA-256.  crypto.subtle.digest is modelled as an injective map from the *)
(* strings the server can hash to 32-byte digests.                         *)
(***************************************************************************)
\* Values GALLERY_PASSWORD can hold when it is set.
EnvPasswords == {"", "hunter2"}

\* Values SESSION_SECRET can hold when it is set.
EnvSecrets == {"pepper"}

\* Passwords a client can submit in the login form (String(File) included).
SubmittedPasswords == {"hunter2", "letmein", DEFAULT_PASSWORD, "[object File]"}

RECURSIVE SetToSeq(_)
SetToSeq(S) ==
  IF S = {} THEN <<>>
  ELSE LET x == CHOOSE y \in S : TRUE
       IN  <<x>> \o SetToSeq(S \ {x})

IndexIn(seq, x) == CHOOSE i \in 1..Len(seq) : seq[i] = x

DigestBytes(n) == [k \in 1..32 |-> (n + ((k - 1) * ((2 * n) + 1))) % 256]

SaltedInputs == SetToSeq({p \o DEFAULT_SALT : p \in EnvPasswords \cup {DEFAULT_PASSWORD}})

SaltedDigest(data) == DigestBytes(IndexIn(SaltedInputs, data))

DerivedSecrets == {toHex(SaltedDigest(SaltedInputs[i])) : i \in 1..Len(SaltedInputs)}

KeyedInputs ==
  SetToSeq({v \o "|" \o s : v \in EnvPasswords \cup SubmittedPasswords,
                            s \in EnvSecrets \cup DerivedSecrets})

SHA256(data) ==
  IF \E i \in 1..Len(SaltedInputs) : SaltedInputs[i] = data
  THEN SaltedDigest(data)
  ELSE DigestBytes(Len(SaltedInputs) + IndexIn(KeyedInputs, data))

computeTokenWith(value, secret) == toBase64(SHA256(value \o "|" \o secret))

computeToken(value) == computeTokenWith(value, SESSION_SECRET)

(***************************************************************************)
(* Cookies                                                                 *)
(***************************************************************************)
\* Map.prototype.set on a map kept as a function from names to values.
mapSet(map, name, value) ==
  [k \in DOMAIN map \cup {name} |-> IF k = name THEN value ELSE map[k]]

\* Map.prototype.get: None when the key is absent.
mapGet(map, name) == IF name \in DOMAIN map THEN Some(map[name]) ELSE None

RECURSIVE parseParts(_, _)
parseParts(parts, map) ==
  IF Len(parts) = 0 THEN map
  ELSE LET pieces == split(trim(parts[1]), "=")
           name   == pieces[1]
           rest   == Tail(pieces)
       IN  IF name = ""
           THEN parseParts(Tail(parts), map)
           ELSE parseParts(Tail(parts), mapSet(map, name, join(rest, "=")))

\* parseCookies taking the text up to the second '=' as the value
\* (`const [name, value] = part.trim().split('=')`).
RECURSIVE parsePartsFirstPiece(_, _)
parsePartsFirstPiece(parts, map) ==
  IF Len(parts) = 0 THEN map
  ELSE LET pieces == split(trim(parts[1]), "=")
           name   == pieces[1]
           value  == IF Len(pieces) > 1 THEN pieces[2] ELSE ""
       IN  IF name = ""
           THEN parsePartsFirstPiece(Tail(parts), map)
           ELSE parsePartsFirstPiece(Tail(parts), mapSet(map, name, value))

parseCookiesFirstPiece(header) ==
  IF header = "" THEN <<>> ELSE parsePartsFirstPiece(split(header, ";"), <<>>)

parseCookies(header) ==
  IF header = "" THEN <<>> ELSE parseParts(split(header, ";"), <<>>)

\* isAuthorized with sessions ended on the server by a logout.
isAuthorizedUntilLogout(request) ==
  LET cookies == parseCookies(request.cookie)
      token   == mapGet(cookies, COOKIE_NAME)
  IN  IF token = None \/ token = Some("") \/ "logout" \in served
      THEN FALSE
      ELSE token[1] = EXPECTED_TOKEN

\* isAuthorized comparing the cookie with the password, not the token.
isAuthorizedAgainstPassword(request) ==
  LET cookies == parseCookies(request.cookie)
      token   == mapGet(cookies, COOKIE_NAME)
  IN  IF token = None \/ token = Some("")
      THEN FALSE
      ELSE token[1] = PASSWORD

isAuthorized(request) ==
  LET cookies == parseCookies(request.cookie)
      token   == mapGet(cookies, COOKIE_NAME)
  IN  IF token = None \/ token = Some("")
      THEN FALSE
      ELSE token[1] = EXPECTED_TOKEN

(***************************************************************************)
(* URLs: the WHATWG path parser behind `new URL(...)` for the http and     *)
(* file schemes, decodeURIComponent, and Deno's conversion of a file URL   *)
(* to a path.  Inputs are ASCII.                                           *)
(***************************************************************************)
AsciiLow == " !\"#$%&'()*+,-./0123456789:;<=>?@ABCDEFGHIJKLMNOPQRSTUVWXYZ[\\]^_"

AsciiHigh == "abcdefghijklmnopqrstuvwxyz{|}~"

\* String.fromCharCode for tab, LF, CR and the printable ASCII range (the
\* grave accent, code 96, excepted: no input carries it).
fromCharCode(n) ==
  IF n = 9 THEN "\t"
  ELSE IF n = 10 THEN "\n"
  ELSE IF n = 13 THEN "\r"
  ELSE IF n < 96 THEN charAt(AsciiLow, n - 31)
  ELSE charAt(AsciiHigh, n - 96)

isHexDigit(c) == c # "" /\ indexOf("0123456789abcdefABCDEF", c) > 0

hexValue(c) ==
  LET i == indexOf("0123456789abcdefABCDEF", c)
  IN  IF i > 16 THEN i - 7 ELSE i - 1

\* Whether s has a well-formed escape (% and two hex digits) at position i.
isEscapeAt(s, i) ==
  /\ charAt(s, i) = "%"
  /\ i + 2 <= Len(s)
  /\ isHexDigit(charAt(s, i + 1))
  /\ isHexDigit(charAt(s, i + 2))

escapeValue(s, i) == (hexValue(charAt(s, i + 1)) * 16) + hexValue(charAt(s, i + 2))

\* decodeURIComponent: [ok |-> FALSE] stands for the URIError it throws on a
\* '%' that does not start a well-formed escape (or an escape above 0x7F
\* that starts no UTF-8 sequence).
RECURSIVE decodeFrom(_, _, _)
decodeFrom(s, i, acc) ==
  IF i > Len(s) THEN [ok |-> TRUE, value |-> acc]
  ELSE IF charAt(s, i) # "%" THEN decodeFrom(s, i + 1, acc \o charAt(s, i))
  ELSE IF ~isEscapeAt(s, i) \/ escapeValue(s, i) > 127
       THEN [ok |-> FALSE, value |-> ""]
  ELSE decodeFrom(s, i + 3, acc \o fromCharCode(escapeValue(s, i)))

decodeURIComponent(s) == decodeFrom(s, 1, "")

\* Deno's path of a file URL (Deno.readFile(url)): a '%' that starts no
\* escape is first rewritten to %25, then the pathname is decoded.
RECURSIVE escapeLonePercent(_, _)
escapeLonePercent(s, i) ==
  IF i > Len(s) THEN ""
  ELSE IF charAt(s, i) = "%" /\ ~isEscapeAt(s, i)
       THEN "%25" \o escapeLonePercent(s, i + 1)
  ELSE charAt(s, i) \o escapeLonePercent(s, i + 1)

pathFromURL(pathname) == decodeURIComponent(escapeLonePercent(pathname, 1))

\* Characters of the path percent-encode set that occur in the inputs.
pathEncodeChar(c) ==
  IF c = " " THEN "%20"
  ELSE IF c = "\"" THEN "%22"
  ELSE IF c = "<" THEN "%3C"
  ELSE IF c = ">" THEN "%3E"
  ELSE IF c = "{" THEN "%7B"
  ELSE IF c = "}" THEN "%7D"
  ELSE c

RECURSIVE pathEncode(_)
pathEncode(s) ==
  IF Len(s) = 0 THEN ""
  ELSE pathEncodeChar(charAt(s, 1)) \o pathEncode(SubSeq(s, 2, Len(s)))

isSingleDot(segment) == segment \in {".", "%2e", "%2E"}

isDoubleDot(segment) ==
  segment \in {"..", ".%2e", ".%2E", "%2e.", "%2E.",
               "%2e%2e", "%2E%2e", "%2e%2E", "%2E%2E"}

\* Tab and newline are removed from the input before anything else.
RECURSIVE removeTabNewline(_)
removeTabNewline(s) ==
  IF Len(s) = 0 THEN ""
  ELSE IF charAt(s, 1) \in {"\t", "\n", "\r"}
       THEN removeTabNewline(SubSeq(s, 2, Len(s)))
  ELSE charAt(s, 1) \o removeTabNewline(SubSeq(s, 2, Len(s)))

\* In a special scheme a backslash separates segments like a slash.
RECURSIVE backslashToSlash(_)
backslashToSlash(s) ==
  IF Len(s) = 0 THEN ""
  ELSE (IF charAt(s, 1) = "\\" THEN "/" ELSE charAt(s, 1))
         \o backslashToSlash(SubSeq(s, 2, Len(s)))

upTo(s, c) == IF indexOf(s, c) = 0 THEN s ELSE SubSeq(s, 1, indexOf(s, c) - 1)

after(s, c) == IF indexOf(s, c) = 0 THEN "" ELSE SubSeq(s, indexOf(s, c) + 1, Len(s))

dropLast(segments) ==
  IF Len(segments) = 0 THEN segments ELSE SubSeq(segments, 1, Len(segments) - 1)

\* The path state of the URL parser: dot segments are resolved against the
\* segments already collected and never climb above the root.
RECURSIVE pathState(_, _)
pathState(segments, path) ==
  IF Len(segments) = 0 THEN path
  ELSE LET segment == segments[1]
           last    == Len(segments) = 1
       IN  IF isDoubleDot(segment)
           THEN pathState(Tail(segments),
                          IF last THEN Append(dropLast(path), "") ELSE dropLast(path))
           ELSE IF isSingleDot(segment)
           THEN pathState(Tail(segments), IF last THEN Append(path, "") ELSE path)
           ELSE pathState(Tail(segments), Append(path, pathEncode(segment)))

\* new URL(input, base): pathname and query of the result, for a base with
\* pathname basePathname and an input that carries no scheme or authority.
parseURL(input, basePathname) ==
  LET clean    == removeTabNewline(input)
      noFrag   == upTo(clean, "#")
      rawPath  == backslashToSlash(upTo(noFrag, "?"))
      base     == Tail(split(basePathname, "/"))
      segments ==
        IF rawPath = "" THEN base
        ELSE IF startsWith(rawPath, "/")
             THEN pathState(split(slice(rawPath, 1), "/"), <<>>)
        ELSE pathState(split(rawPath, "/"), dropLast(base))
  IN  [pathname |-> "/" \o join(segments, "/"),
       search   |-> after(noFrag, "?")]

\* url.searchParams.get(name): the value of the first parameter so named.
RECURSIVE firstParam(_, _)
firstParam(pairs, name) ==
  IF Len(pairs) = 0 THEN None
  ELSE IF upTo(pairs[1], "=") = name THEN Some(after(pairs[1], "="))
  ELSE firstParam(Tail(pairs), name)

searchParamsGet(search, name) ==
  IF search = "" THEN None ELSE firstParam(split(search, "&"), name)

(***************************************************************************)
(* The file system the server reads: the directory of server.ts and what   *)
(* surrounds it.                                                           *)
(***************************************************************************)
\* ROOT_DIR.pathname: the directory that holds server.ts.
ROOT_DIR == "/srv/app/"

INDEX_URL == parseURL("./index.html", ROOT_DIR).pathname

Directories ==
  {"/", "/srv", "/srv/app", "/srv/app/assets", "/srv/app/assets/photos",
   "/srv/app/scripts"}

Files ==
  {"/srv/app/index.html", "/srv/app/login.html", "/srv/app/styles.css",
   "/srv/app/app.js", "/srv/app/server.ts",
   "/srv/app/assets/gallery.json", "/srv/app/assets/my photo.jpg",
   "/srv/app/scripts/generate-gallery.mjs",
   "/srv/secret.txt"}

parentDir(dir) ==
  LET parts == dropLast(split(dir, "/"))
  IN  IF Len(parts) <= 1 THEN "/" ELSE join(parts, "/")

\* Path resolution by the operating system, one component at a time:
\* <<"file", path>>, <<"dir", path>>, or <<"error", kind>>.
RECURSIVE walk(_, _)
walk(components, dir) ==
  IF Len(components) = 0 THEN <<"dir", dir>>
  ELSE LET c     == components[1]
           child == (IF dir = "/" THEN "" ELSE dir) \o "/" \o c
       IN  IF c = "" \/ c = "." THEN walk(Tail(components), dir)
           ELSE IF c = ".." THEN walk(Tail(components), parentDir(dir))
           ELSE IF child \in Directories THEN walk(Tail(components), child)
           ELSE IF child \in Files
                THEN IF Len(components) = 1
                     THEN <<"file", child>>
                     ELSE <<"error", "NotADirectory">>
           ELSE <<"error", "NotFound">>

\* Deno.readFile(fileUrl): <<"file", path>> for the bytes of that file, or
\* <<"error", kind>>.
readFile(fileUrl) ==
  LET path  == pathFromURL(fileUrl)
      found == walk(split(path.value, "/"), "/")
  IN  IF ~path.ok THEN <<"error", "URIError">>
      ELSE IF found[1] = "dir" THEN <<"error", "IsADirectory">>
      ELSE found

(***************************************************************************)
(* Responses                                                               *)
(***************************************************************************)
\* A response: its status, its Location, Set-Cookie and content-type headers
\* (None when absent), its body, and the number of computeToken calls made
\* to produce it.
Response(status, location, setCookie, body, computeTokenCalls) ==
  [status            |-> status,
   location          |-> location,
   setCookie         |-> setCookie,
   contentType       |-> None,
   body              |-> body,
   computeTokenCalls |-> computeTokenCalls]

getContentType(pathname) ==
  LET lower == toLowerCase(pathname)
  IN  IF endsWith(lower, ".html") THEN Some("text/html; charset=utf-8")
      ELSE IF endsWith(lower, ".css") THEN Some("text/css; charset=utf-8")
      ELSE IF endsWith(lower, ".js")
           THEN Some("application/javascript; charset=utf-8")
      ELSE IF endsWith(lower, ".json")
           THEN Some("application/json; charset=utf-8")
      ELSE IF endsWith(lower, ".jpg") \/ endsWith(lower, ".jpeg")
           THEN Some("image/jpeg")
      ELSE IF endsWith(lower, ".png") THEN Some("image/png")
      ELSE IF endsWith(lower, ".webp") THEN Some("image/webp")
      ELSE IF endsWith(lower, ".avif") THEN Some("image/avif")
      ELSE IF endsWith(lower, ".svg") THEN Some("image/svg+xml")
      ELSE IF endsWith(lower, ".gif") THEN Some("image/gif")
      ELSE None

redirect(location) == Response(303, Some(location), None, <<"empty">>, 0)

notFound == Response(404, None, None, <<"text", "Not Found">>, 0)

\* The login template with `message || '&nbsp;'` in place of its placeholder.
renderLogin(message, status) ==
  [Response(status, None, None,
            <<"login", IF message = "" THEN "&nbsp;" ELSE message>>, 0)
     EXCEPT !.contentType = Some("text/html; charset=utf-8")]

serveFile(fileUrl) ==
  LET file == readFile(fileUrl)
  IN  IF file[1] = "file"
      THEN [Response(200, None, None, file, 0)
              EXCEPT !.contentType = getContentType(fileUrl)]
      ELSE IF file[2] = "NotFound" THEN notFound
      ELSE Response(500, None, None, <<"text", "Internal Server Error">>, 0)

\* What Deno.serve answers when the handler throws (its default onError).
handlerThrew == Response(500, None, None, <<"text", "Internal Server Error">>, 0)

\* resolvePath without the check against ROOT_DIR.
resolvePathUnchecked(pathname) ==
  LET cleanPath == IF startsWith(pathname, "/") THEN slice(pathname, 1) ELSE pathname
  IN  [ok |-> TRUE, url |-> parseURL(cleanPath, ROOT_DIR).pathname]

\* resolvePath: [ok |-> FALSE] stands for the Error it throws.
resolvePath(pathname) ==
  LET cleanPath == IF startsWith(pathname, "/") THEN slice(pathname, 1) ELSE pathname
      candidate == parseURL(cleanPath, ROOT_DIR).pathname
  IN  IF ~startsWith(candidate, ROOT_DIR)
      THEN [ok |-> FALSE, url |-> ""]
      ELSE [ok |-> TRUE, url |-> candidate]

PUBLIC_PATHS == {"/login", "/login.html", "/styles.css", "/favicon.ico"}

SessionCookie ==
  COOKIE_NAME \o "=" \o EXPECTED_TOKEN
    \o "; HttpOnly; SameSite=Strict; Path=/; Max-Age=" \o ToString(60 * 60 * 8)

ClearedCookie == COOKIE_NAME \o "=; HttpOnly; SameSite=Strict; Path=/; Max-Age=0"

\* String(form.get('password') ?? '') for a parsed form.
submittedPassword(body) ==
  IF body[1] = "text" THEN body[2]
  ELSE IF body[1] = "file" THEN "[object File]"
  ELSE ""

\* The POST /login branch without the comparison of the two tokens.
postLoginSkipsCompare(request) ==
  IF request.body[1] = "invalid" THEN handlerThrew
  ELSE IF submittedPassword(request.body) = ""
       THEN renderLogin("Please enter the password.", 400)
  ELSE Response(303, Some("/"), Some(SessionCookie), <<"empty">>, 1)

\* The POST /login branch hashing the submission before looking at it.
postLoginHashesFirst(request) ==
  IF request.body[1] = "invalid" THEN handlerThrew
  ELSE IF computeToken(submittedPassword(request.body)) # EXPECTED_TOKEN
       THEN [redirect("/login?error=1") EXCEPT !.computeTokenCalls = 1]
  ELSE Response(303, Some("/"), Some(SessionCookie), <<"empty">>, 1)

\* The POST /login branch.
postLogin(request) ==
  IF request.body[1] = "invalid" THEN handlerThrew
  ELSE LET submitted == submittedPassword(request.body)
       IN  IF submitted = ""
           THEN renderLogin("Please enter the password.", 400)
           ELSE IF computeToken(submitted) # EXPECTED_TOKEN
           THEN [redirect("/login?error=1") EXCEPT !.computeTokenCalls = 1]
           ELSE Response(303, Some("/"), Some(SessionCookie), <<"empty">>, 1)

\* The /logout branch without its Set-Cookie header.
logoutWithoutClearing == redirect("/login")

\* The /logout branch.
logout == Response(303, Some("/login"), Some(ClearedCookie), <<"empty">>, 0)

\* The static asset branch.
serveAsset(pathname) ==
  LET fileUrl == resolvePath(pathname)
  IN  IF fileUrl.ok
      THEN serveFile(fileUrl.url)
      ELSE Response(403, None, None, <<"text", "Forbidden">>, 0)

isAssetPath(pathname) ==
  \/ pathname = "/styles.css"
  \/ pathname = "/app.js"
  \/ startsWith(pathname, "/assets/")
  \/ startsWith(pathname, "/scripts/")

\* The handler given to Deno.serve, after the pathname has been decoded.
route(request, url, pathname) ==
  LET authorized == isAuthorized(request)
      isPublic   == pathname \in PUBLIC_PATHS
  IN  IF pathname = "/login" /\ request.method = "GET" THEN
        IF authorized THEN redirect("/")
        ELSE renderLogin(IF searchParamsGet(url.search, "error") = Some("1")
                         THEN "Incorrect password. Please try again."
                         ELSE "&nbsp;", 200)
      ELSE IF pathname = "/login" /\ request.method = "POST" THEN
        postLogin(request)
      ELSE IF pathname = "/logout" THEN
        logout
      ELSE IF ~authorized /\ ~isPublic THEN
        redirect("/login")
      ELSE IF pathname = "/" \/ pathname = "/index.html" THEN
        serveFile(INDEX_URL)
      ELSE IF pathname = "/login.html" THEN
        IF authorized THEN redirect("/") ELSE renderLogin("&nbsp;", 200)
      ELSE IF isAssetPath(pathname) THEN
        serveAsset(pathname)
      ELSE IF authorized THEN
        serveFile(INDEX_URL)
      ELSE redirect("/login")

handler(request) ==
  LET url     == parseURL(request.target, "/")
      decoded == decodeURIComponent(url.pathname)
  IN  IF ~decoded.ok THEN handlerThrew
      ELSE route(request, url, decoded.value)

(***************************************************************************)
(* Requests a client can send                                              *)
(***************************************************************************)
\* Most cookies one Cookie header carries.
MaxCookies == 2

Methods == {"GET", "HEAD", "POST"}

Targets ==
  {"/", "/index.html", "/login", "/login?error=1", "/login.html",
   "/styles.css", "/favicon.ico", "/logout", "/app.js",
   "/assets/gallery.json", "/assets/my%20photo.jpg", "/assets/missing.jpg",
   "/assets/", "/wedding-photo-042",
   "/%6Cogin", "/%6Cogout", "/%", "/%ff",
   "/assets/%2e%2e/server.ts", "/assets/..%2Fserver.ts",
   "/assets/..%2F..%2Fsecret.txt", "/scripts/..%5C..%5Csecret.txt",
   "/assets/..%2F..%2F",
   "/assets/..%252F..%252Fsecret.txt"}

\* Targets whose handler reads the form.
FormTargets == {"/login", "/%6Cogin"}

\* A request body as req.formData() sees it: not a form (it throws), a form
\* without the password field, or a form whose field is text or a file.
NoForm == <<"invalid", "">>

Bodies ==
  {NoForm, <<"absent", "">>, <<"text", "">>, <<"file", "photo.jpg">>}
    \cup {<<"text", p>> : p \in SubmittedPasswords \ {"[object File]"}}

\* name=value pairs a client may put in its Cookie header.
CookiePairs ==
  {COOKIE_NAME \o "=" \o EXPECTED_TOKEN,
   COOKIE_NAME \o "=" \o SubSeq(EXPECTED_TOKEN, 1, Len(EXPECTED_TOKEN) - 1),
   "theme=dark"}

\* Headers a browser would not write: an emptied cookie, a foreign token,
\* odd spacing, a name without a value.
OddHeaders ==
  {COOKIE_NAME \o "=",
   COOKIE_NAME \o "=" \o computeToken("letmein"),
   "theme=dark;  " \o COOKIE_NAME \o "=" \o EXPECTED_TOKEN \o " ;",
   COOKIE_NAME \o "=" \o EXPECTED_TOKEN \o "; " \o COOKIE_NAME}

RECURSIVE CookieLists(_)
CookieLists(n) ==
  IF n = 0 THEN {<<>>}
  ELSE LET shorter == CookieLists(n - 1)
       IN  shorter \cup {Append(l, c) : l \in shorter, c \in CookiePairs}

\* A client sends each stored cookie once.
distinctPairs(l) == \A i, j \in 1..Len(l) : l[i] = l[j] => i = j

CookieHeaders ==
  {join(l, "; ") : l \in {k \in CookieLists(MaxCookies) : distinctPairs(k)}}
    \cup OddHeaders

Request(method, target, cookie, body) ==
  [method |-> method, target |-> target, cookie |-> cookie, body |-> body]

Requests ==
  {Request(m, t, c, NoForm) : m \in Methods, t \in Targets, c \in CookieHeaders}
    \cup {Request("POST", t, c, b) : t \in FormTargets, c \in CookieHeaders, b \in Bodies}

(***************************************************************************)
(* Start-up and the serving loop                                           *)
(***************************************************************************)
NoRequest == Request("", "", "", NoForm)

NoResponse == Response(0, None, None, <<"empty">>, 0)

\* The generator is a separate program: it is not running while the server
\* is observed.
FunctionsIdle ==
  /\ encoded = <<>>
  /\ buffer = <<>>
  /\ entry = <<>>
  /\ result = <<>>

RunIdle ==
  /\ run = 0
  /\ tree = {}
  /\ options = <<>>
  /\ files = <<>>
  /\ fileIndex = 0
  /\ entries = <<>>
  /\ photoCounter = 0
  /\ photos = <<>>
  /\ firstRun = <<>>

GeneratorIdle == gpc = "idle" /\ FunctionsIdle /\ RunIdle

\* main of the generator has not been started.
MainIdle ==
  /\ argv = <<>>
  /\ environment = <<>>
  /\ photoRoot = "present"
  /\ settings = <<>>
  /\ existing = {}
  /\ outputFiles = {}
  /\ writes = <<>>
  /\ exitCode = <<>>
  /\ loaded = <<>>

\* No probe is awaited and no scan is under way.
ScanIdle ==
  /\ inFlight = {}
  /\ scanOffset = 0
  /\ iterations = <<>>

\* The client is a separate program too: no page is open.
ClientIdle ==
  /\ cpc = "closed"
  /\ folders = <<>>
  /\ currentFolderIndex = 0
  /\ currentPhotos = <<>>
  /\ currentPhotoIndex = -1
  /\ detailHidden = TRUE
  /\ historyStates = {}

OthersIdle == MainIdle /\ ScanIdle /\ ClientIdle

Environments ==
  [GALLERY_PASSWORD : {None} \cup {Some(p) : p \in EnvPasswords},
   SESSION_SECRET   : {None} \cup {Some(s) : s \in EnvSecrets}]

Init ==
  /\ env \in Environments
  /\ pc = "boot"
  /\ PASSWORD = ""
  /\ SESSION_SECRET = ""
  /\ EXPECTED_TOKEN = ""
  /\ req = NoRequest
  /\ resp = NoResponse
  /\ served = {}
  /\ probed = <<>>
  /\ GeneratorIdle
  /\ OthersIdle

\* Deno.env.get('GALLERY_PASSWORD') ?? 'yasnafelix2024'
configuredPassword ==
  IF env.GALLERY_PASSWORD = None THEN DEFAULT_PASSWORD ELSE env.GALLERY_PASSWORD[1]

\* Deno.env.get('SESSION_SECRET') ?? hex(SHA-256(PASSWORD + salt))
configuredSecret(password) ==
  IF env.SESSION_SECRET = None
  THEN toHex(SHA256(password \o DEFAULT_SALT))
  ELSE env.SESSION_SECRET[1]

\* if (!PASSWORD) { ...; Deno.exit(1) }
FailFast ==
  /\ pc = "boot"
  /\ configuredPassword = ""
  /\ pc' = "exited"
  /\ UNCHANGED <<env, PASSWORD, SESSION_SECRET, EXPECTED_TOKEN, req, resp, served,
                 probed>>
  /\ UNCHANGED <<generatorVars, otherVars>>

\* The module's top level up to Deno.serve.
Startup ==
  /\ pc = "boot"
  /\ configuredPassword # ""
  /\ PASSWORD' = configuredPassword
  /\ SESSION_SECRET' = configuredSecret(configuredPassword)
  /\ EXPECTED_TOKEN' =
       computeTokenWith(configuredPassword, configuredSecret(configuredPassword))
  /\ pc' = "listening"
  /\ UNCHANGED <<env, req, resp, served, probed>>
  /\ UNCHANGED <<generatorVars, otherVars>>

\* Requests whose answers are recorded before every request served.
Probes ==
  {Request("GET", "/", COOKIE_NAME \o "=" \o EXPECTED_TOKEN, NoForm),
   Request("GET", "/", "", NoForm),
   Request("GET", "/assets/gallery.json", COOKIE_NAME \o "=" \o EXPECTED_TOKEN, NoForm),
   Request("POST", "/login", "", <<"text", PASSWORD>>)}

\* What a response adds to the history.
responseKind(response) ==
  IF response.setCookie = Some(ClearedCookie) THEN {"logout"} ELSE {}

\* One request answered by the handler.
Serve ==
  /\ pc = "listening"
  /\ probed' = [r \in Probes |-> handler(r)]
  /\ \E request \in Requests :
       LET response == handler(request)
       IN  /\ req' = request
           /\ resp' = response
           /\ served' = served \cup responseKind(response)
  /\ pc' = "responded"
  /\ UNCHANGED <<env, PASSWORD, SESSION_SECRET, EXPECTED_TOKEN>>
  /\ UNCHANGED <<generatorVars, otherVars>>

\* The response is sent; the server waits for the next request.
Complete ==
  /\ pc = "responded"
  /\ pc' = "listening"
  /\ req' = NoRequest
  /\ resp' = NoResponse
  /\ UNCHANGED <<env, PASSWORD, SESSION_SECRET, EXPECTED_TOKEN, served, probed>>
  /\ UNCHANGED <<generatorVars, otherVars>>

Next == FailFast \/ Startup \/ Serve \/ Complete

\* The server is a separate program: it is not running while the generator
\* is observed.
ServerOff ==
  /\ env = [GALLERY_PASSWORD |-> None, SESSION_SECRET |-> None]
  /\ pc = "off"
  /\ PASSWORD = ""
  /\ SESSION_SECRET = ""
  /\ EXPECTED_TOKEN = ""
  /\ req = NoRequest
  /\ resp = NoResponse
  /\ served = {}
  /\ probed = <<>>

Spec == Init /\ [][Next]_vars

(***************************************************************************)
(* Vocabulary of the properties                                            *)
(***************************************************************************)
\* The pathname the handler routes on; None when decoding it throws.
decodedPath(request) ==
  LET decoded == decodeURIComponent(parseURL(request.target, "/").pathname)
  IN  IF decoded.ok THEN Some(decoded.value) ELSE None

toPublicPath(request) ==
  \E p \in PUBLIC_PATHS : decodedPath(request) = Some(p)

\* The values of the gallery_session pairs written in a Cookie header.
sessionValues(header) ==
  LET parts == split(header, ";")
  IN  {after(trim(parts[i]), "=") :
         i \in {j \in 1..Len(parts) : upTo(trim(parts[j]), "=") = COOKIE_NAME}}

\* No gallery_session cookie, or only ones that differ from the token.
withoutToken(request) == EXPECTED_TOKEN \notin sessionValues(request.cookie)

\* The gallery_session cookie of the request is the token.
withToken(request) == sessionValues(request.cookie) = {EXPECTED_TOKEN}

servesFile(response) == response.body[1] = "file"

redirectsToLogin(response) ==
  response.status = 303 /\ response.location = Some("/login")

(***************************************************************************)
(* C1: every request to a path outside the public set whose Cookie header  *)
(* has no gallery_session cookie equal to the expected token is answered   *)
(* 303 with Location /login and never with file content.                   *)
(***************************************************************************)
C1_GateRedirects ==
  (pc = "responded" /\ ~toPublicPath(req) /\ withoutToken(req))
    => (redirectsToLogin(resp) /\ ~servesFile(resp))

\* The part of C1 the handler does keep: such a request gets no file.
C1_NoContentWithoutToken ==
  (pc = "responded" /\ ~toPublicPath(req) /\ withoutToken(req))
    => ~servesFile(resp)

\* The request C1 fails on: a pathname that decodeURIComponent rejects.
C1_UndecodablePathAnswered ==
  /\ pc = "responded"
  /\ decodedPath(req) = None
  /\ withoutToken(req)
  /\ resp.status = 500

C3_PublicNeverGated ==
  (pc = "responded" /\ toPublicPath(req)) => ~redirectsToLogin(resp)

C3_FaviconGated ==
  /\ pc = "responded"
  /\ decodedPath(req) = Some("/favicon.ico")
  /\ req.cookie = ""
  /\ redirectsToLogin(resp)

(***************************************************************************)
(* C4: a POST /login with a non-empty submitted password is answered 303   *)
(* to / with a Set-Cookie carrying the token (HttpOnly, SameSite=Strict,   *)
(* Path=/, Max-Age=28800) exactly when the password is the configured one; *)
(* any other non-empty password is answered 303 to /login?error=1 without  *)
(* a Set-Cookie header.                                                    *)
(***************************************************************************)
isLoginPost(request) ==
  /\ request.method = "POST"
  /\ decodedPath(request) = Some("/login")
  /\ request.body[1] \in {"absent", "text", "file"}

C4_LoginIffPassword ==
  (pc = "responded" /\ isLoginPost(req) /\ submittedPassword(req.body) # "")
    => IF submittedPassword(req.body) = PASSWORD
       THEN /\ resp.status = 303
            /\ resp.location = Some("/")
            /\ resp.setCookie =
                 Some("gallery_session=" \o EXPECTED_TOKEN
                        \o "; HttpOnly; SameSite=Strict; Path=/; Max-Age=28800")
       ELSE /\ resp.status = 303
            /\ resp.location = Some("/login?error=1")
            /\ resp.setCookie = None

C4_Witness ==
  /\ pc = "responded"
  /\ isLoginPost(req)
  /\ req.body = <<"text", PASSWORD>>
  /\ resp.setCookie # None
  /\ resp.location = Some("/")

(***************************************************************************)
(* C5: a POST /login whose password field is missing or empty is answered  *)
(* with the login page, status 400 and a message, without a Set-Cookie     *)
(* header and without computeToken being called for the request.           *)
(***************************************************************************)
C5_EmptyRejectedBeforeHashing ==
  (pc = "responded" /\ isLoginPost(req) /\ req.body \in {<<"absent", "">>, <<"text", "">>})
    => /\ resp.status = 400
       /\ resp.body = <<"login", "Please enter the password.">>
       /\ resp.setCookie = None
       /\ resp.location = None
       /\ resp.computeTokenCalls = 0

C5_Witness ==
  /\ pc = "responded"
  /\ isLoginPost(req)
  /\ req.body = <<"absent", "">>
  /\ resp.status = 400

(***************************************************************************)
(* C6: with GALLERY_PASSWORD unset the process exits at start-up and never *)
(* serves a request, so only a password the operator configured can        *)
(* authorize a login.                                                      *)
(***************************************************************************)
C6_UnsetPasswordNeverServes ==
  env.GALLERY_PASSWORD = None => pc \in {"boot", "exited"}

\* The login C6 rules out: the built-in password accepted with none set.
C6_BuiltInPasswordAccepted ==
  /\ env.GALLERY_PASSWORD = None
  /\ pc = "responded"
  /\ isLoginPost(req)
  /\ req.body = <<"text", DEFAULT_PASSWORD>>
  /\ resp.setCookie = Some(SessionCookie)

(***************************************************************************)
(* C7: every request to /logout, whatever its method and cookies, is       *)
(* answered 303 to /login with a Set-Cookie that empties gallery_session   *)
(* with Max-Age=0; it gets no content and is never issued the token.       *)
(***************************************************************************)
C7_LogoutClearsCookie ==
  (pc = "responded" /\ decodedPath(req) = Some("/logout"))
    => /\ resp.status = 303
       /\ resp.location = Some("/login")
       /\ resp.setCookie =
            Some("gallery_session=; HttpOnly; SameSite=Strict; Path=/; Max-Age=0")
       /\ resp.body = <<"empty">>

C7_Witness ==
  /\ pc = "responded"
  /\ req.target = "/%6Cogout"
  /\ req.method = "POST"
  /\ withToken(req)
  /\ resp.setCookie = Some(ClearedCookie)

(***************************************************************************)
(* C8: the server keeps no state across requests: once it serves, the      *)
(* expected token never changes and the answer to a request depends on the *)
(* request alone, so a request with the token is answered after a /logout  *)
(* exactly as before it.                                                   *)
(***************************************************************************)
\* The token the start-up computed from the environment.
startupToken ==
  computeTokenWith(configuredPassword, configuredSecret(configuredPassword))

C8_Stateless ==
  /\ pc \in {"listening", "responded"} => EXPECTED_TOKEN = startupToken
  /\ pc = "responded" =>
       /\ handler(req) = resp
       /\ \A r \in Probes : handler(r) = probed[r]

C8_Witness ==
  /\ pc = "responded"
  /\ "logout" \in served
  /\ withToken(req)
  /\ decodedPath(req) = Some("/")
  /\ resp = handler(req)
  /\ resp.body = <<"file", "/srv/app/index.html">>

(***************************************************************************)
(* C9: the cookie of a successful login round-trips: a Cookie header that  *)
(* holds the name=value pair of its Set-Cookie, alone or among cookies of  *)
(* other names, is parsed to a value equal to the expected token, padding  *)
(* included, and isAuthorized accepts it.                                  *)
(***************************************************************************)
\* Cookie headers a client builds around the pair it stored.
RoundTripHeaders(pair) ==
  {pair,
   "theme=dark; " \o pair,
   pair \o "; theme=dark",
   "a=b=c; " \o pair \o "; lang=en",
   "theme=dark;" \o pair}

C9_CookieRoundTrips ==
  (pc = "responded" /\ isLoginPost(req)
     /\ resp.location = Some("/") /\ resp.setCookie # None)
    => \A h \in RoundTripHeaders(upTo(resp.setCookie[1], ";")) :
         /\ mapGet(parseCookies(h), COOKIE_NAME) = Some(EXPECTED_TOKEN)
         /\ isAuthorized(Request("GET", "/", h, NoForm))

C9_Witness ==
  /\ pc = "responded"
  /\ isLoginPost(req)
  /\ resp.location = Some("/")
  /\ resp.setCookie # None
  /\ Len(EXPECTED_TOKEN) = 44
  /\ charAt(EXPECTED_TOKEN, 44) = "="
  /\ upTo(resp.setCookie[1], ";") = COOKIE_NAME \o "=" \o EXPECTED_TOKEN

(***************************************************************************)
(* C10: an authorized request to /app.js, /styles.css, /assets/* or        *)
(* /scripts/* whose decoded path resolves outside the served root is       *)
(* answered 403 with a generic body: no file outside the root and no       *)
(* directory listing is returned.                                          *)
(***************************************************************************)
\* Where the file system arrives when it follows the path from the root.
locationBelowRoot(pathname) ==
  walk(split(ROOT_DIR \o slice(pathname, 1), "/"), "/")

resolvesOutsideRoot(pathname) ==
  LET location == locationBelowRoot(pathname)
  IN  /\ location[1] \in {"file", "dir"}
      /\ ~startsWith(location[2] \o "/", ROOT_DIR)

C10_DoublyEncodedReadsOutside ==
  /\ pc = "responded"
  /\ withToken(req)
  /\ req.target = "/assets/..%252F..%252Fsecret.txt"
  /\ ~resolvesOutsideRoot(decodedPath(req)[1])
  /\ resp.body = <<"file", "/srv/secret.txt">>

(***************************************************************************)
(* The manifest generator (src/unnamed/part_000).                          *)
(*                                                                         *)
(* A Buffer is a sequence of bytes; offsets are zero-based as in the       *)
(* source.  A call either returns a value or throws: Returned(v) and       *)
(* Thrown(message).                                                        *)
(***************************************************************************)
Returned(value) == <<"return", value>>

Thrown(message) == <<"throw", message>>

Null == [null |-> TRUE]

\* buffer[offset]; undefined outside the buffer.
byteAt(buf, offset) ==
  IF offset >= 0 /\ offset < Len(buf) THEN Some(buf[offset + 1]) ELSE None

\* Buffer.prototype.slice(start, end): clamped to the buffer.
bufferSlice(buf, start, end) ==
  SubSeq(buf, start + 1, IF end > Len(buf) THEN Len(buf) ELSE end)

\* The bounds check of readUInt16BE / readUInt32BE: a RangeError unless the
\* whole field lies inside the buffer.
inRange(buf, offset, size) == offset >= 0 /\ offset + size <= Len(buf)

readUInt16BE(buf, offset) == (buf[offset + 1] * 256) + buf[offset + 2]

readUInt32BE(buf, offset) ==
  (buf[offset + 1] * 16777216) + (buf[offset + 2] * 65536)
    + (buf[offset + 3] * 256) + buf[offset + 4]

PNG_SIGNATURE == <<137, 80, 78, 71, 13, 10, 26, 10>>

\* parsePngDimensions without the signature test.
parsePngDimensionsUnverified(buf) ==
  IF ~inRange(buf, 16, 4) \/ ~inRange(buf, 20, 4)
  THEN Thrown("RangeError")
  ELSE Returned([width  |-> readUInt32BE(buf, 16),
                 height |-> readUInt32BE(buf, 20)])

parsePngDimensions(buf) ==
  IF bufferSlice(buf, 0, 8) # PNG_SIGNATURE
  THEN Thrown("Invalid PNG signature")
  ELSE IF ~inRange(buf, 16, 4)
  THEN Thrown("RangeError")
  ELSE IF ~inRange(buf, 20, 4)
  THEN Thrown("RangeError")
  ELSE Returned([width  |-> readUInt32BE(buf, 16),
                 height |-> readUInt32BE(buf, 20)])

JPEG_SOF_MARKERS ==
  {192, 193, 194, 195, 197, 198, 199, 201, 202, 203, 205, 206, 207}

\* while (offset < length && buffer[offset] === 0xff) offset += 1
RECURSIVE skipFill(_, _)
skipFill(buf, offset) ==
  IF offset < Len(buf) /\ byteAt(buf, offset) = Some(255)
  THEN skipFill(buf, offset + 1)
  ELSE offset

\* The scan loop advancing by the whole declared length (offset +=
\* segmentLength), two bytes too far.
RECURSIVE scanJpegSkippingTooFar(_, _)
scanJpegSkippingTooFar(buf, offset) ==
  IF offset >= Len(buf) THEN Thrown("Failed to locate JPEG dimensions")
  ELSE
    LET atMarker == skipFill(buf, offset)
    IN  IF atMarker >= Len(buf) THEN Thrown("Failed to locate JPEG dimensions")
        ELSE
          LET marker   == buf[atMarker + 1]
              atLength == atMarker + 1
          IN  IF marker = 217 \/ marker = 218
              THEN Thrown("Failed to locate JPEG dimensions")
              ELSE IF ~inRange(buf, atLength, 2) THEN Thrown("RangeError")
              ELSE
                LET segmentLength == readUInt16BE(buf, atLength)
                    atData        == atLength + 2
                IN  IF marker \in JPEG_SOF_MARKERS
                    THEN IF atData + 5 > Len(buf)
                         THEN Thrown("Failed to locate JPEG dimensions")
                         ELSE Returned([width  |-> readUInt16BE(buf, atData + 3),
                                        height |-> readUInt16BE(buf, atData + 1)])
                    ELSE scanJpegSkippingTooFar(buf, atData + segmentLength)

\* The scan loop of parseJpegDimensions from one iteration's offset on.
RECURSIVE scanJpeg(_, _)
scanJpeg(buf, offset) ==
  IF offset >= Len(buf) THEN Thrown("Failed to locate JPEG dimensions")
  ELSE
    LET atMarker == skipFill(buf, offset)
    IN  IF atMarker >= Len(buf) THEN Thrown("Failed to locate JPEG dimensions")
        ELSE
          LET marker   == buf[atMarker + 1]
              atLength == atMarker + 1
          IN  IF marker = 217 \/ marker = 218
              THEN Thrown("Failed to locate JPEG dimensions")
              ELSE IF ~inRange(buf, atLength, 2) THEN Thrown("RangeError")
              ELSE
                LET segmentLength == readUInt16BE(buf, atLength)
                    atData        == atLength + 2
                IN  IF marker \in JPEG_SOF_MARKERS
                    THEN IF atData + 5 > Len(buf)
                         THEN Thrown("Failed to locate JPEG dimensions")
                         ELSE Returned([width  |-> readUInt16BE(buf, atData + 3),
                                        height |-> readUInt16BE(buf, atData + 1)])
                    ELSE scanJpeg(buf, (atData + segmentLength) - 2)

parseJpegDimensions(buf) ==
  IF ~inRange(buf, 0, 2) THEN Thrown("RangeError")
  ELSE IF readUInt16BE(buf, 0) # 65496 THEN Thrown("Invalid JPEG header")
  ELSE scanJpeg(buf, 2)

(***************************************************************************)
(* Buffers handed to the parsers: PNG headers whole, truncated and with a  *)
(* damaged signature; JPEG streams encoded from a list of APPn/COM         *)
(* segments and one SOF0 frame; and malformed JPEG streams.                *)
(***************************************************************************)
\* Trailing bytes kept after the 24 bytes parsePngDimensions reads.
MaxTrailing == 2

\* Number of APPn/COM segments in front of the SOF0 frame.
MaxSegments == 2

\* The four bytes of a width or height field.
PngFields ==
  {<<0, 0, 0, 0>>, <<0, 0, 0, 1>>, <<0, 0, 4, 176>>, <<0, 1, 0, 0>>,
   <<1, 2, 3, 4>>, <<127, 255, 255, 255>>}

PngSignatures ==
  {PNG_SIGNATURE} \cup {[PNG_SIGNATURE EXCEPT ![i] = 0] : i \in 1..8}

\* Length and type of the IHDR chunk, and what follows its two size fields.
IhdrHead == <<0, 0, 0, 13, 73, 72, 68, 82>>

IhdrRest == <<8, 6, 0, 0, 0, 31, 21, 196, 137>>

PngBuffers ==
  {SubSeq(sig \o IhdrHead \o w \o h \o IhdrRest, 1, n) :
     sig \in PngSignatures, w \in PngFields, h \in PngFields,
     n \in 0..(24 + MaxTrailing)}

be16(n) == <<n \div 256, n % 256>>

\* A payload longer than one length byte can declare, full of marker bytes.
LongPayload == [i \in 1..300 |-> IF i % 2 = 1 THEN 255 ELSE 192]

SegmentMarkers == {224, 254}

SegmentPayloads == {<<>>, <<255, 192>>, <<0, 255, 217, 0>>, LongPayload}

Segments == [marker : SegmentMarkers, payload : SegmentPayloads]

SegmentLists == UNION {[1..k -> Segments] : k \in 0..MaxSegments}

FrameSizes == {<<1200, 800>>, <<800, 1200>>, <<65535, 1>>, <<0, 0>>}

JpegImages ==
  {[segments |-> segs, width |-> size[1], height |-> size[2], rest |-> rest] :
     segs \in SegmentLists, size \in FrameSizes, rest \in {<<>>, <<255, 217>>}}

encodeSegment(segment) ==
  <<255, segment.marker>> \o be16(Len(segment.payload) + 2) \o segment.payload

RECURSIVE encodeSegments(_)
encodeSegments(segs) ==
  IF Len(segs) = 0 THEN <<>>
  ELSE encodeSegment(segs[1]) \o encodeSegments(Tail(segs))

\* A baseline frame header: length, precision, height, width, components.
encodeFrame(width, height) ==
  <<255, 192>> \o be16(17) \o <<8>> \o be16(height) \o be16(width)
    \o <<3, 1, 34, 0, 2, 17, 1, 3, 17, 1>>

encodeJpeg(image) ==
  <<255, 216>> \o encodeSegments(image.segments)
    \o encodeFrame(image.width, image.height) \o image.rest

MalformedJpegs ==
  {<<>>, <<255>>, <<255, 216>>, <<216, 255>>, <<255, 216, 255, 217>>,
   <<255, 216, 255, 218, 0, 2>>,
   <<255, 216, 255, 224, 0, 0>>,
   <<255, 216, 255, 224, 0, 1, 255, 255>>,
   <<255, 216, 255, 224, 0, 16, 1, 2>>,
   <<255, 216, 255, 224>>,
   <<255, 216, 255, 192, 0, 17, 8, 3>>}

(***************************************************************************)
(* The reconciler's string functions.  File names are ASCII, on which      *)
(* normalize('NFKD') and the removal of combining marks change nothing.    *)
(***************************************************************************)
Digits == "0123456789"

\* The characters of a string, as a set.
charactersOf(s) == {charAt(s, i) : i \in 1..Len(s)}

DigitCharacters == charactersOf(Digits)

AlphaNumericCharacters == charactersOf(UpperCase \o LowerCase \o Digits)

isDigit(c) == c \in DigitCharacters

isAlphaNumeric(c) == c \in AlphaNumericCharacters

\* The upper-case letter of every lower-case letter.
UpperCaseOf ==
  [c \in {charAt(LowerCase, i) : i \in 1..Len(LowerCase)} |->
     charAt(UpperCase, indexOf(LowerCase, c))]

\* String.prototype.toUpperCase() on ASCII
RECURSIVE toUpperCase(_)
toUpperCase(s) ==
  IF Len(s) = 0 THEN ""
  ELSE LET c == charAt(s, 1)
       IN  (IF c \in DOMAIN UpperCaseOf THEN UpperCaseOf[c] ELSE c)
             \o toUpperCase(SubSeq(s, 2, Len(s)))

\* String.prototype.indexOf(marker), zero-based from position i; -1 when the
\* marker does not occur.
RECURSIVE indexOfFrom(_, _, _)
indexOfFrom(value, marker, i) ==
  IF i + Len(marker) > Len(value) THEN -1
  ELSE IF SubSeq(value, i + 1, i + Len(marker)) = marker THEN i
  ELSE indexOfFrom(value, marker, i + 1)

includes(value, marker) == indexOfFrom(value, marker, 0) # -1

\* String.prototype.lastIndexOf(c) for a character, one-based; 0 when absent.
RECURSIVE lastIndexOf(_, _)
lastIndexOf(s, c) ==
  IF Len(s) = 0 THEN 0
  ELSE IF charAt(s, Len(s)) = c THEN Len(s)
  ELSE lastIndexOf(SubSeq(s, 1, Len(s) - 1), c)

\* path.extname of a file name: from its last dot on, unless the name has no
\* dot or only a leading one.
extname(fileName) ==
  LET dot == lastIndexOf(fileName, ".")
  IN  IF dot <= 1 \/ fileName = ".." THEN "" ELSE SubSeq(fileName, dot, Len(fileName))

\* path.basename(fileName, ext)
basename(fileName, ext) ==
  IF ext # "" /\ fileName # ext /\ endsWith(fileName, ext)
  THEN SubSeq(fileName, 1, Len(fileName) - Len(ext))
  ELSE fileName

\* value.replace(/[^a-zA-Z0-9]+/g, '-'); inRun tells that the run the next
\* character may continue is already replaced.
RECURSIVE replaceNonAlphaNumeric(_, _)
replaceNonAlphaNumeric(value, inRun) ==
  IF Len(value) = 0 THEN ""
  ELSE LET c    == charAt(value, 1)
           rest == SubSeq(value, 2, Len(value))
       IN  IF isAlphaNumeric(c) THEN c \o replaceNonAlphaNumeric(rest, FALSE)
           ELSE (IF inRun THEN "" ELSE "-") \o replaceNonAlphaNumeric(rest, TRUE)

\* value.replace(/^-+|-+$/g, '')
RECURSIVE stripDashes(_)
stripDashes(value) ==
  IF Len(value) > 0 /\ charAt(value, 1) = "-"
  THEN stripDashes(SubSeq(value, 2, Len(value)))
  ELSE IF Len(value) > 0 /\ charAt(value, Len(value)) = "-"
  THEN stripDashes(SubSeq(value, 1, Len(value) - 1))
  ELSE value

toKebabCase(value) ==
  toLowerCase(stripDashes(replaceNonAlphaNumeric(value, FALSE)))

\* value.replace(/[-_]+/g, ' ')
RECURSIVE replaceSeparators(_, _)
replaceSeparators(value, inRun) ==
  IF Len(value) = 0 THEN ""
  ELSE LET c    == charAt(value, 1)
           rest == SubSeq(value, 2, Len(value))
       IN  IF c \in {"-", "_"}
           THEN (IF inRun THEN "" ELSE " ") \o replaceSeparators(rest, TRUE)
           ELSE c \o replaceSeparators(rest, FALSE)

capitalize(word) == toUpperCase(charAt(word, 1)) \o slice(word, 1)

toTitleCase(value) ==
  LET words == split(replaceSeparators(value, FALSE), " ")
  IN  join([i \in 1..Len(words) |-> capitalize(words[i])], " ")

\* String(n) for n >= 0
RECURSIVE numberToString(_)
numberToString(n) ==
  IF n < 10 THEN charAt(Digits, n + 1)
  ELSE numberToString(n \div 10) \o charAt(Digits, (n % 10) + 1)

\* String.prototype.padStart(targetLength, '0')
RECURSIVE padStart(_, _)
padStart(s, targetLength) ==
  IF Len(s) >= targetLength THEN s ELSE padStart("0" \o s, targetLength)

stripMarker(value, marker) ==
  IF marker = "" THEN value
  ELSE LET index == indexOfFrom(value, marker, 0)
       IN  IF index = -1 THEN value
           ELSE SubSeq(value, 1, index)
                  \o SubSeq(value, index + Len(marker) + 1, Len(value))

deriveEntryKey(relativeDir, baseName) ==
  IF relativeDir = "" THEN baseName ELSE relativeDir \o "/" \o baseName

\* classifyBaseName leaving the suffix in the clean base name.
classifyBaseNameKeepingSuffix(baseName, thumbnailSuffix, fullSuffix) ==
  IF thumbnailSuffix # "" /\ includes(baseName, thumbnailSuffix)
  THEN [type |-> "thumbnail", cleanBaseName |-> baseName]
  ELSE IF fullSuffix # "" /\ includes(baseName, fullSuffix)
  THEN [type |-> "full", cleanBaseName |-> baseName]
  ELSE [type |-> "generic", cleanBaseName |-> baseName]

classifyBaseName(baseName, thumbnailSuffix, fullSuffix) ==
  IF thumbnailSuffix # "" /\ includes(baseName, thumbnailSuffix)
  THEN [type |-> "thumbnail", cleanBaseName |-> stripMarker(baseName, thumbnailSuffix)]
  ELSE IF fullSuffix # "" /\ includes(baseName, fullSuffix)
  THEN [type |-> "full", cleanBaseName |-> stripMarker(baseName, fullSuffix)]
  ELSE [type |-> "generic", cleanBaseName |-> baseName]

\* determineOrientation calling only equal sides square.
determineOrientationExact(width, height) ==
  IF width = None \/ width = Some(0) \/ height = None \/ height = Some(0)
  THEN "square"
  ELSE IF width[1] = height[1] THEN "square"
  ELSE IF height[1] > width[1] THEN "portrait" ELSE "landscape"

determineOrientation(width, height) ==
  IF width = None \/ width = Some(0) \/ height = None \/ height = Some(0)
  THEN "square"
  ELSE LET difference == width[1] - height[1]
       IN  IF (IF difference < 0 THEN -difference ELSE difference) <= 1
           THEN "square"
           ELSE IF height[1] > width[1] THEN "portrait" ELSE "landscape"

\* Number((height / width).toFixed(6)), kept in millionths; undefined when a
\* dimension is missing or zero.
computeAspectRatio(width, height) ==
  IF width = None \/ width = Some(0) \/ height = None \/ height = Some(0)
  THEN None
  ELSE LET scaled    == height[1] * 1000000
           quotient  == scaled \div width[1]
           remainder == scaled % width[1]
       IN  Some(IF 2 * remainder >= width[1] THEN quotient + 1 ELSE quotient)

IMAGE_EXTENSIONS == {".jpg", ".jpeg", ".png", ".gif", ".webp", ".avif", ".svg"}

isImageFile(fileName) == toLowerCase(extname(fileName)) \in IMAGE_EXTENSIONS

(***************************************************************************)
(* Intl.Collator(undefined, {numeric: true, sensitivity: 'base'}) on the   *)
(* characters of the keys: letters compare without case, a run of digits   *)
(* compares by its value, and space and punctuation sort before digits,    *)
(* digits before letters.                                                  *)
(***************************************************************************)
CollationOrder == " _-./0123456789abcdefghijklmnopqrstuvwxyz"

\* The place of every character of CollationOrder, in either case.
PrimaryWeights ==
  [c \in charactersOf(CollationOrder) \cup charactersOf(UpperCase) |->
     indexOf(CollationOrder, toLowerCase(c))]

primaryWeight(c) == IF c \in DOMAIN PrimaryWeights THEN PrimaryWeights[c] ELSE 0

RECURSIVE digitRunLength(_)
digitRunLength(s) ==
  IF Len(s) > 0 /\ isDigit(charAt(s, 1))
  THEN 1 + digitRunLength(SubSeq(s, 2, Len(s)))
  ELSE 0

RECURSIVE digitsValue(_)
digitsValue(s) ==
  IF Len(s) = 0 THEN 0
  ELSE (digitsValue(SubSeq(s, 1, Len(s) - 1)) * 10)
         + (indexOf(Digits, charAt(s, Len(s))) - 1)

sign(n) == IF n < 0 THEN -1 ELSE IF n > 0 THEN 1 ELSE 0

RECURSIVE collatorCompare(_, _)
collatorCompare(a, b) ==
  IF Len(a) = 0 \/ Len(b) = 0 THEN sign(Len(a) - Len(b))
  ELSE IF isDigit(charAt(a, 1)) /\ isDigit(charAt(b, 1))
  THEN LET runA == digitRunLength(a)
           runB == digitRunLength(b)
           byValue == sign(digitsValue(SubSeq(a, 1, runA))
                             - digitsValue(SubSeq(b, 1, runB)))
       IN  IF byValue # 0 THEN byValue
           ELSE collatorCompare(SubSeq(a, runA + 1, Len(a)),
                                SubSeq(b, runB + 1, Len(b)))
  ELSE LET byWeight == sign(primaryWeight(charAt(a, 1)) - primaryWeight(charAt(b, 1)))
       IN  IF byWeight # 0 THEN byWeight
           ELSE collatorCompare(SubSeq(a, 2, Len(a)), SubSeq(b, 2, Len(b)))

(***************************************************************************)
(* Files on disk, the dimension probe and the reconciler.  A disk is a set *)
(* of files [relativeDir, fileName, content] under the photo root; the     *)
(* content is a Buffer, or Unreadable when reading the file fails.         *)
(***************************************************************************)
PHOTOS_DIR == "/srv/app/assets/photos"

DEFAULT_THUMBNAIL_SUFFIX == "_small"

DEFAULT_FULL_SUFFIX == "_large"

Unreadable == <<"EACCES">>

\* path.join of two relative pieces, either of which may be empty.
pathJoin(a, b) == IF a = "" THEN b ELSE IF b = "" THEN a ELSE a \o "/" \o b

\* path.join(currentDir, entry.name) for a file of the disk
absolutePathOf(diskFile) ==
  pathJoin(pathJoin(PHOTOS_DIR, diskFile.relativeDir), diskFile.fileName)

\* What collectImageFiles pushes for a file of the disk.
fileRecord(diskFile) ==
  [absolutePath |-> absolutePathOf(diskFile),
   relativeDir  |-> diskFile.relativeDir,
   fileName     |-> diskFile.fileName,
   relativePath |-> pathJoin("photos",
                             pathJoin(diskFile.relativeDir, diskFile.fileName))]

\* fs.readFile(filePath)
readFileSafe(filePath, disk) ==
  LET found == {f \in disk : absolutePathOf(f) = filePath}
  IN  IF found = {} THEN Thrown("ENOENT")
      ELSE LET f == CHOOSE g \in found : TRUE
           IN  IF f.content = Unreadable THEN Thrown("EACCES")
               ELSE Returned(f.content)

getImageDimensions(filePath, disk) ==
  LET slash == lastIndexOf(filePath, "/")
      ext   == toLowerCase(extname(SubSeq(filePath, slash + 1, Len(filePath))))
      read  == readFileSafe(filePath, disk)
  IN  IF read[1] = "throw" THEN read
      ELSE IF ext = ".png" THEN parsePngDimensions(read[2])
      ELSE IF ext = ".jpg" \/ ext = ".jpeg" THEN parseJpegDimensions(read[2])
      ELSE Returned(Null)

\* A string that is undefined or ''.
falsyString(value) == value = None \/ value = Some("")

\* A number that is undefined or 0.
falsyNumber(value) == value = None \/ value = Some(0)

\* The object entries.set(entryKey, {...}) stores; properties not yet
\* assigned are None.
newEntry(entryKey, relativeDir, cleanBaseName) ==
  [key             |-> entryKey,
   relativeDir     |-> relativeDir,
   baseName        |-> cleanBaseName,
   sortKey         |-> toLowerCase(entryKey),
   thumbnail       |-> None,
   full            |-> None,
   width           |-> None,
   height          |-> None,
   thumbnailWidth  |-> None,
   thumbnailHeight |-> None]

\* entries.has(entryKey), the Map kept as the sequence of its values in
\* insertion order.
entriesHas(map, entryKey) == \E i \in 1..Len(map) : map[i].key = entryKey

entriesIndex(map, entryKey) == CHOOSE i \in 1..Len(map) : map[i].key = entryKey

\* assignDimensions('thumbnail')
assignDimensions(target, dimensions) ==
  IF dimensions = Null THEN target
  ELSE [target EXCEPT !.thumbnailWidth  = Some(dimensions.width),
                      !.thumbnailHeight = Some(dimensions.height)]

\* The full role assigned only while it is empty.
assignFullWhenEmpty(target, relativePath, dimensions) ==
  IF falsyString(target.full)
  THEN [target EXCEPT
          !.full   = Some(relativePath),
          !.width  = IF dimensions = Null THEN None ELSE Some(dimensions.width),
          !.height = IF dimensions = Null THEN None ELSE Some(dimensions.height)]
  ELSE target

\* entry.full = relativePath; entry.width = dimensions?.width; ...
assignFull(target, relativePath, dimensions) ==
  [target EXCEPT
     !.full   = Some(relativePath),
     !.width  = IF dimensions = Null THEN None ELSE Some(dimensions.width),
     !.height = IF dimensions = Null THEN None ELSE Some(dimensions.height)]

\* The role branches with no branch for a file of neither suffix.
assignRolesBySuffixOnly(target, type, relativePath, dimensions) ==
  IF type = "thumbnail"
  THEN assignDimensions([target EXCEPT !.thumbnail = Some(relativePath)], dimensions)
  ELSE IF type = "full"
  THEN assignFull(target, relativePath, dimensions)
  ELSE target

\* The role branches of the loop body.
assignRoles(target, type, relativePath, dimensions) ==
  IF type = "thumbnail"
  THEN assignDimensions([target EXCEPT !.thumbnail = Some(relativePath)], dimensions)
  ELSE IF type = "full"
  THEN assignFull(target, relativePath, dimensions)
  ELSE LET filled == IF falsyString(target.full)
                     THEN assignFull(target, relativePath, dimensions)
                     ELSE target
       IN  IF falsyString(filled.thumbnail)
           THEN assignDimensions([filled EXCEPT !.thumbnail = Some(relativePath)],
                                 dimensions)
           ELSE filled

\* The loop body from the entry's creation to the role branches, for the
\* dimensions the probe gave (Null for none).
mergeProbed(map, file, opts, dimensions) ==
  LET ext            == extname(file.fileName)
      baseName       == basename(file.fileName, ext)
      classification == classifyBaseName(baseName, opts.thumbnailSuffix,
                                         opts.fullSuffix)
      cleanBaseName  == IF classification.cleanBaseName # ""
                        THEN classification.cleanBaseName
                        ELSE baseName
      entryKey       == deriveEntryKey(file.relativeDir, cleanBaseName)
      withEntry      == IF entriesHas(map, entryKey) THEN map
                        ELSE Append(map, newEntry(entryKey, file.relativeDir,
                                                  cleanBaseName))
      i              == entriesIndex(withEntry, entryKey)
  IN  [withEntry EXCEPT
         ![i] = assignRoles(withEntry[i], classification.type,
                            file.relativePath, dimensions)]

\* The loop body with no try/catch around the probe: its error leaves
\* buildPhotosFromFiles.
mergeFileUncaught(map, file, opts, disk) ==
  LET probe == getImageDimensions(file.absolutePath, disk)
  IN  IF probe[1] = "throw" THEN probe
      ELSE Returned(mergeProbed(map, file, opts, probe[2]))

\* The body of the loop over the files, for one file: the Map after it, or
\* the error that leaves the loop.
mergeFile(map, file, opts, disk) ==
  LET probe      == getImageDimensions(file.absolutePath, disk)
      dimensions == IF probe[1] = "throw" THEN Null ELSE probe[2]
  IN  Returned(mergeProbed(map, file, opts, dimensions))

\* Array.prototype.sort with the collator on sortKey: stable, so entries the
\* collator holds equal keep their insertion order.
RECURSIVE insertEntry(_, _)
insertEntry(sorted, e) ==
  IF Len(sorted) = 0 THEN <<e>>
  ELSE IF collatorCompare(e.sortKey, sorted[1].sortKey) < 0
  THEN <<e>> \o sorted
  ELSE <<sorted[1]>> \o insertEntry(Tail(sorted), e)

RECURSIVE sortEntries(_)
sortEntries(map) ==
  IF Len(map) = 0 THEN <<>>
  ELSE insertEntry(sortEntries(SubSeq(map, 1, Len(map) - 1)), map[Len(map)])

\* nextPhotoId() with the counter at n
photoId(n) == "photo-" \o padStart(numberToString(n), 3)

\* finalizePhotoEntry(entry, nextPhotoId): the photo (Null when the entry has
\* no path) and the counter nextPhotoId leaves behind.
finalizePhotoEntry(e, counter) ==
  LET thumbnail == IF falsyString(e.thumbnail) THEN e.full ELSE e.thumbnail
      full      == IF falsyString(e.full) THEN e.thumbnail ELSE e.full
  IN  IF falsyString(thumbnail) /\ falsyString(full)
      THEN [photo |-> Null, photoCounter |-> counter]
      ELSE
        LET idSeed      == join(SelectSeq(<<e.relativeDir, e.baseName>>,
                                          LAMBDA part : part # ""), " ")
            slug        == toKebabCase(idSeed)
            titleSource == trim(replaceSeparators(e.baseName, FALSE))
            width       == IF e.width = None THEN e.thumbnailWidth ELSE e.width
            height      == IF e.height = None THEN e.thumbnailHeight ELSE e.height
            aspectRatio == computeAspectRatio(width, height)
        IN  [photo |->
               [id              |-> IF slug # "" THEN slug ELSE photoId(counter),
                title           |-> IF titleSource # "" THEN toTitleCase(titleSource)
                                    ELSE "Untitled photo",
                description     |-> "",
                thumbnail       |-> thumbnail[1],
                full            |-> full[1],
                orientation     |-> determineOrientation(width, height),
                width           |-> IF falsyNumber(e.width) THEN None ELSE e.width,
                height          |-> IF falsyNumber(e.height) THEN None ELSE e.height,
                thumbnailWidth  |-> IF falsyNumber(e.thumbnailWidth) THEN None
                                    ELSE e.thumbnailWidth,
                thumbnailHeight |-> IF falsyNumber(e.thumbnailHeight) THEN None
                                    ELSE e.thumbnailHeight,
                aspectRatio     |-> IF falsyNumber(aspectRatio) THEN None ELSE aspectRatio],
             photoCounter |-> IF slug # "" THEN counter ELSE counter + 1]

\* The entries finalized with nextPhotoId's counter advanced for every
\* entry.
RECURSIVE finalizeEntriesNumberingAll(_, _)
finalizeEntriesNumberingAll(sorted, counter) ==
  IF Len(sorted) = 0 THEN [photos |-> <<>>, photoCounter |-> counter]
  ELSE LET first == finalizePhotoEntry(sorted[1], counter)
           rest  == finalizeEntriesNumberingAll(Tail(sorted), counter + 1)
       IN  [photos       |-> IF first.photo = Null THEN rest.photos
                             ELSE <<first.photo>> \o rest.photos,
            photoCounter |-> rest.photoCounter]

\* .map((entry) => finalizePhotoEntry(entry, nextPhotoId)).filter(Boolean)
RECURSIVE finalizeEntries(_, _)
finalizeEntries(sorted, counter) ==
  IF Len(sorted) = 0 THEN [photos |-> <<>>, photoCounter |-> counter]
  ELSE LET first == finalizePhotoEntry(sorted[1], counter)
           rest  == finalizeEntries(Tail(sorted), first.photoCounter)
       IN  [photos       |-> IF first.photo = Null THEN rest.photos
                             ELSE <<first.photo>> \o rest.photos,
            photoCounter |-> rest.photoCounter]

\* The loop of buildPhotosFromFiles from its beginning to its end; Thrown
\* when a file's merge throws.
RECURSIVE mergeFiles(_, _, _, _)
mergeFiles(map, fileList, opts, disk) ==
  IF Len(fileList) = 0 THEN Returned(map)
  ELSE LET merged == mergeFile(map, fileList[1], opts, disk)
       IN  IF merged[1] = "throw" THEN merged
           ELSE mergeFiles(merged[2], Tail(fileList), opts, disk)

\* buildPhotosFromFiles(files, {thumbnailSuffix, fullSuffix, nextPhotoId})
\* with the counter at 1, as main calls it.
buildPhotosFromFiles(fileList, opts, disk) ==
  LET merged == mergeFiles(<<>>, fileList, opts, disk)
  IN  IF merged[1] = "throw" THEN merged
      ELSE Returned(finalizeEntries(sortEntries(merged[2]), 1).photos)

(***************************************************************************)
(* Photo roots the generator is run on, and the generation run: main from  *)
(* the collection of the files to the photos array.                        *)
(***************************************************************************)
\* Number of files of a photo root drawn freely from PoolFiles.
MaxFiles == 3

pngOf(width, height) ==
  PNG_SIGNATURE \o IhdrHead \o <<0, 0>> \o be16(width) \o <<0, 0>> \o be16(height)
    \o IhdrRest

jpegOf(width, height) ==
  encodeJpeg([segments |-> <<[marker |-> 224, payload |-> <<0, 255, 217, 0>>]>>,
              width |-> width, height |-> height, rest |-> <<255, 217>>])

diskFile(relativeDir, fileName, content) ==
  [relativeDir |-> relativeDir, fileName |-> fileName, content |-> content]

PoolFiles ==
  {diskFile("", "beach_small.png", pngOf(500, 499)),
   diskFile("", "beach_large.png", pngOf(1200, 800)),
   diskFile("", "beach_large.jpg", <<255, 216, 255, 224, 0, 16, 1, 2>>),
   diskFile("", "Beach.jpg", jpegOf(800, 1200)),
   diskFile("", "beach.jpg", jpegOf(1600, 900)),
   diskFile("trip", "beach_small.png", pngOf(0, 300)),
   diskFile("trip", "beach_large.png", Unreadable),
   diskFile("", "---.gif", <<71, 73, 70, 56, 57, 97>>)}

\* Photo roots beyond the pool: a pair whose base name is only the suffix,
\* names that differ in a number, a file that is no image, a hero image,
\* several files for one role of one key, base names with no letter or
\* digit.
ExtraTrees ==
  {{diskFile("", "_small.jpg", jpegOf(400, 300)),
    diskFile("", "_large.jpg", jpegOf(1200, 900))},
   {diskFile("", "img-2.jpg", jpegOf(30, 20)),
    diskFile("", "img-10.jpg", jpegOf(20, 30)),
    diskFile("", "img-02.png", pngOf(2, 3))},
   {diskFile("", "notes.txt", <<110, 111>>),
    diskFile("", "sunset.jpg", jpegOf(1200, 800))},
   {diskFile("", "hero.jpg", jpegOf(1200, 800)),
    diskFile("", "sunset.jpg", jpegOf(1200, 800))},
   {diskFile("", "dune_small.png", pngOf(400, 300)),
    diskFile("", "dune_small.jpg", <<255, 216, 255, 224, 0, 16, 1, 2>>),
    diskFile("", "dune.gif", <<71, 73, 70, 56, 57, 97>>)},
   {diskFile("", "dune.jpg", jpegOf(1600, 900)),
    diskFile("", "dune.png", pngOf(800, 450)),
    diskFile("", "dune_small.png", pngOf(400, 300))},
   {diskFile("", "___.png", pngOf(30, 20)),
    diskFile("", "_a.jpg", jpegOf(20, 30)),
    diskFile("", "---.gif", <<71, 73, 70, 56, 57, 97>>)}}

Trees == {t \in SUBSET PoolFiles : Cardinality(t) <= MaxFiles} \cup ExtraTrees

\* thumbnailSuffix and fullSuffix as main resolves them with no flag and no
\* environment variable set, and no hero image given.
OptionSets ==
  {[thumbnailSuffix |-> DEFAULT_THUMBNAIL_SUFFIX,
    fullSuffix      |-> DEFAULT_FULL_SUFFIX,
    heroImage       |-> ""]}

RECURSIVE Orderings(_)
Orderings(S) ==
  IF S = {} THEN {<<>>}
  ELSE UNION {{<<x>> \o p : p \in Orderings(S \ {x})} : x \in S}

\* readdir delivers a directory's entries in any order; walk descends into a
\* subdirectory where it meets it, so the files of a subdirectory follow
\* one another.
isTraversal(order) ==
  \A i, j, k \in 1..Len(order) :
    (i < j /\ j < k /\ order[i].relativeDir # ""
       /\ order[i].relativeDir = order[k].relativeDir)
      => order[j].relativeDir = order[i].relativeDir

\* collectImageFiles(PHOTOS_DIR): one list per order of traversal.
collectImageFiles(disk) ==
  LET images == {fileRecord(f) : f \in {g \in disk : isImageFile(g.fileName)}}
  IN  {order \in Orderings(images) : isTraversal(order)}

DEFAULT_HERO_IMAGE_CANDIDATES == <<"hero.jpg", "hero.jpeg", "hero.png", "hero.webp">>

\* pathExists as findDefaultHeroImage uses it
pathExists(relative, disk) ==
  \E f \in disk : pathJoin("photos", pathJoin(f.relativeDir, f.fileName)) = relative

RECURSIVE firstExisting(_, _)
firstExisting(candidates, disk) ==
  IF Len(candidates) = 0 THEN ""
  ELSE IF pathExists(pathJoin("photos", candidates[1]), disk)
  THEN pathJoin("photos", candidates[1])
  ELSE firstExisting(Tail(candidates), disk)

findDefaultHeroImage(disk) == firstExisting(DEFAULT_HERO_IMAGE_CANDIDATES, disk)

\* imageFiles.filter((file) => file.relativePath !== heroImageRelativePath)
filteredImageFiles(imageFiles, opts, disk) ==
  LET heroImage == IF opts.heroImage # "" THEN opts.heroImage
                   ELSE findDefaultHeroImage(disk)
  IN  IF heroImage = "" THEN imageFiles
      ELSE SelectSeq(imageFiles, LAMBDA file : file.relativePath # heroImage)

\* photoCounter kept from one run to the next.
carriedPhotoCounter(previous) == IF previous = 0 THEN 1 ELSE previous

\* let photoCounter = 1
freshPhotoCounter(previous) == 1

entryKeys(map) == [i \in 1..Len(map) |-> map[i].key]

GeneratorInit ==
  /\ ServerOff
  /\ OthersIdle
  /\ FunctionsIdle
  /\ gpc = "start"
  /\ run = 1
  /\ tree \in Trees
  /\ options \in OptionSets
  /\ files = <<>>
  /\ fileIndex = 0
  /\ entries = <<>>
  /\ photoCounter = 0
  /\ photos = <<>>
  /\ firstRun = None

\* main from collectImageFiles to the call of buildPhotosFromFiles.
CollectFiles ==
  /\ gpc = "start"
  /\ \E imageFiles \in collectImageFiles(tree) :
       files' = filteredImageFiles(imageFiles, options, tree)
  /\ photoCounter' = freshPhotoCounter(photoCounter)
  /\ fileIndex' = 0
  /\ entries' = <<>>
  /\ gpc' = "merging"
  /\ UNCHANGED <<run, tree, options, photos, firstRun>>
  /\ UNCHANGED <<encoded, buffer, entry, result>>
  /\ UNCHANGED <<serverVars, otherVars>>

\* One turn of the loop of buildPhotosFromFiles; the await of the probe ends
\* before the next turn begins.
MergeFile ==
  /\ gpc = "merging"
  /\ fileIndex < Len(files)
  /\ LET merged == mergeFile(entries, files[fileIndex + 1], options, tree)
     IN  IF merged[1] = "throw"
         THEN /\ gpc' = "failed"
              /\ UNCHANGED <<entries, fileIndex>>
         ELSE /\ entries' = merged[2]
              /\ fileIndex' = fileIndex + 1
              /\ UNCHANGED gpc
  /\ UNCHANGED <<run, tree, options, files, photoCounter, photos, firstRun>>
  /\ UNCHANGED <<encoded, buffer, entry, result>>
  /\ UNCHANGED <<serverVars, otherVars>>

\* The sort, the finalization of every entry, and the photos array returned
\* to main.
EmitPhotos ==
  /\ gpc = "merging"
  /\ fileIndex = Len(files)
  /\ LET sorted    == sortEntries(entries)
         finalized == finalizeEntries(sorted, photoCounter)
     IN  /\ entries' = sorted
         /\ photos' = finalized.photos
         /\ photoCounter' = finalized.photoCounter
         /\ firstRun' = IF firstRun = None
                        THEN Some([files  |-> files,
                                   keys   |-> entryKeys(sorted),
                                   photos |-> finalized.photos])
                        ELSE firstRun
  /\ gpc' = "done"
  /\ UNCHANGED <<run, tree, options, files, fileIndex>>
  /\ UNCHANGED <<encoded, buffer, entry, result>>
  /\ UNCHANGED <<serverVars, otherVars>>

\* The tool is run once more over the unchanged directory.
RunAgain ==
  /\ gpc = "done"
  /\ run = 1
  /\ run' = 2
  /\ gpc' = "start"
  /\ files' = <<>>
  /\ fileIndex' = 0
  /\ entries' = <<>>
  /\ photos' = <<>>
  /\ UNCHANGED <<tree, options, photoCounter, firstRun>>
  /\ UNCHANGED <<encoded, buffer, entry, result>>
  /\ UNCHANGED <<serverVars, otherVars>>

GeneratorNext == CollectFiles \/ MergeFile \/ EmitPhotos \/ RunAgain

GeneratorSpec == GeneratorInit /\ [][GeneratorNext]_vars

(***************************************************************************)
(* Entries handed to finalizePhotoEntry: a file in each role, and for each *)
(* role either no dimensions or the width and height of one probe.         *)
(***************************************************************************)
DimensionValues == {0, 1, 2, 3, 499, 500, 800, 1200}

ProbedSizes ==
  {Null} \cup {[width |-> w, height |-> h] : w \in DimensionValues, h \in DimensionValues}

EntryInputs ==
  {assignDimensions(
     assignFull([newEntry("sunset", "", "sunset") EXCEPT
                   !.thumbnail = Some("photos/sunset_small.jpg")],
                "photos/sunset_large.jpg", fullSize),
     thumbnailSize) :
     fullSize \in ProbedSizes, thumbnailSize \in ProbedSizes}

(***************************************************************************)
(* The generator's functions applied to drawn inputs                       *)
(***************************************************************************)
FunctionsInit ==
  /\ ServerOff
  /\ OthersIdle
  /\ RunIdle
  /\ gpc = "input"
  /\ result = <<>>
  /\ \/ /\ encoded = None
        /\ buffer \in PngBuffers \cup MalformedJpegs
        /\ entry = <<>>
     \/ \E image \in JpegImages :
          /\ encoded = Some(image)
          /\ buffer = encodeJpeg(image)
          /\ entry = <<>>
     \/ /\ encoded = None
        /\ buffer = <<>>
        /\ entry \in EntryInputs

ParsePng ==
  /\ gpc = "input"
  /\ entry = <<>>
  /\ gpc' = "png"
  /\ result' = parsePngDimensions(buffer)
  /\ UNCHANGED <<encoded, buffer, entry>>
  /\ UNCHANGED <<run, tree, options, files, fileIndex, entries, photoCounter,
                 photos, firstRun>>
  /\ UNCHANGED <<serverVars, otherVars>>

ParseJpeg ==
  /\ gpc = "input"
  /\ entry = <<>>
  /\ gpc' = "jpeg"
  /\ result' = parseJpegDimensions(buffer)
  /\ UNCHANGED <<encoded, buffer, entry>>
  /\ UNCHANGED <<run, tree, options, files, fileIndex, entries, photoCounter,
                 photos, firstRun>>
  /\ UNCHANGED <<serverVars, otherVars>>

\* finalizePhotoEntry(entry, nextPhotoId) with nextPhotoId at its first id
FinalizeEntry ==
  /\ gpc = "input"
  /\ entry # <<>>
  /\ gpc' = "finalized"
  /\ result' = finalizePhotoEntry(entry, 1)
  /\ UNCHANGED <<encoded, buffer, entry>>
  /\ UNCHANGED <<run, tree, options, files, fileIndex, entries, photoCounter,
                 photos, firstRun>>
  /\ UNCHANGED <<serverVars, otherVars>>

FunctionsNext == ParsePng \/ ParseJpeg \/ FinalizeEntry

FunctionsSpec == FunctionsInit /\ [][FunctionsNext]_vars

(***************************************************************************)
(* C11: parsePngDimensions returns the big-endian 32-bit values at offsets *)
(* 16 and 20 of every buffer of at least 24 bytes that begins with the PNG *)
(* signature, and throws for every buffer that is shorter or begins        *)
(* otherwise.                                                              *)
(***************************************************************************)
C11_PngDimensions ==
  gpc = "png" =>
    IF Len(buffer) >= 24 /\ SubSeq(buffer, 1, 8) = PNG_SIGNATURE
    THEN result =
           Returned([width  |-> (buffer[17] * 16777216) + (buffer[18] * 65536)
                                  + (buffer[19] * 256) + buffer[20],
                     height |-> (buffer[21] * 16777216) + (buffer[22] * 65536)
                                  + (buffer[23] * 256) + buffer[24]])
    ELSE result[1] = "throw"

C11_Witness ==
  /\ gpc = "png"
  /\ Len(buffer) = 24 + MaxTrailing
  /\ result = Returned([width |-> 1200, height |-> 16909060])

(***************************************************************************)
(* C12: for a buffer made of SOI, well-formed APPn/COM segments and one    *)
(* SOF0 frame, parseJpegDimensions returns the height and width stored in  *)
(* the frame.                                                              *)
(***************************************************************************)
C12_JpegDimensions ==
  (gpc = "jpeg" /\ encoded # None) =>
    result = Returned([width |-> encoded[1].width, height |-> encoded[1].height])

C12_Witness ==
  /\ gpc = "jpeg"
  /\ encoded # None
  /\ Len(encoded[1].segments) = MaxSegments
  /\ \E i \in 1..MaxSegments : encoded[1].segments[i].payload = LongPayload
  /\ result = Returned([width |-> 800, height |-> 1200])

(***************************************************************************)
(* Vocabulary of the generator's properties                                *)
(***************************************************************************)
baseNameOf(file) == basename(file.fileName, extname(file.fileName))

classificationOf(file) ==
  classifyBaseName(baseNameOf(file), options.thumbnailSuffix, options.fullSuffix)

\* The reconciliation key a file maps to.
keyOf(file) ==
  deriveEntryKey(file.relativeDir,
                 IF classificationOf(file).cleanBaseName # ""
                 THEN classificationOf(file).cleanBaseName
                 ELSE baseNameOf(file))

\* The base name without the suffix it ends with.
stem(file, suffix) ==
  SubSeq(baseNameOf(file), 1, Len(baseNameOf(file)) - Len(suffix))

\* small and large are X_small.<ext> and X_large.<ext> of one directory, for
\* a base name X that contains neither suffix.
isPair(small, large) ==
  /\ small.relativeDir = large.relativeDir
  /\ extname(small.fileName) = extname(large.fileName)
  /\ endsWith(baseNameOf(small), "_small")
  /\ endsWith(baseNameOf(large), "_large")
  /\ stem(small, "_small") = stem(large, "_large")
  /\ ~includes(stem(small, "_small"), "_small")
  /\ ~includes(stem(small, "_small"), "_large")

\* The probe of a file of the photo root throws.
probeFails(file) == getImageDimensions(file.absolutePath, tree)[1] = "throw"

\* The dimensions probed from the file at a relative path; Null when the
\* probe throws or the format is not supported.
probedSize(relativePath) ==
  LET f     == CHOOSE g \in tree : fileRecord(g).relativePath = relativePath
      probe == getImageDimensions(fileRecord(f).absolutePath, tree)
  IN  IF probe[1] = "throw" THEN Null ELSE probe[2]

\* A dimension as a photo carries it: absent when it is unknown or zero.
emitted(size, field) ==
  IF size = Null THEN None
  ELSE IF size[field] = 0 THEN None ELSE Some(size[field])

\* The photo root with every file whose probe throws replaced by a sound
\* image of the same name.
healedDisk(disk) ==
  {IF getImageDimensions(absolutePathOf(f), disk)[1] = "throw"
   THEN [f EXCEPT !.content = IF toLowerCase(extname(f.fileName)) = ".png"
                              THEN pngOf(640, 480) ELSE jpegOf(640, 480)]
   ELSE f : f \in disk}

\* The keys to which a file with a throwing probe maps.
failingKeys == {keyOf(files[i]) : i \in {j \in 1..Len(files) : probeFails(files[j])}}

(***************************************************************************)
(* C13: given exactly X_small.<ext> and X_large.<ext> of one directory,    *)
(* for a base name X that contains neither suffix, buildPhotosFromFiles    *)
(* emits exactly one photo whose id is the slug of X, whose thumbnail is   *)
(* the _small file and whose full is the _large file, whichever file comes *)
(* first.  The id is in fact the slug of the directory and X (the          *)
(* photo-NNN id when that slug is empty), and X must not be empty.         *)
(***************************************************************************)
C13_PairIdIsSlugOfBaseName ==
  (gpc = "done" /\ Len(files) = 2) =>
    \A i, j \in 1..2 :
      isPair(files[i], files[j]) =>
        /\ Len(photos) = 1
        /\ photos[1].id = toKebabCase(stem(files[i], "_small"))
        /\ photos[1].thumbnail = files[i].relativePath
        /\ photos[1].full = files[j].relativePath

C13_PairMerged ==
  (gpc = "done" /\ Len(files) = 2) =>
    \A i, j \in 1..2 :
      (isPair(files[i], files[j]) /\ stem(files[i], "_small") # "") =>
        LET X    == stem(files[i], "_small")
            dir  == files[i].relativeDir
            slug == toKebabCase(IF dir = "" THEN X ELSE dir \o " " \o X)
        IN  /\ Len(photos) = 1
            /\ photos[1].id = IF slug # "" THEN slug ELSE "photo-001"
            /\ photos[1].thumbnail = files[i].relativePath
            /\ photos[1].full = files[j].relativePath

C13_Witness ==
  /\ gpc = "done"
  /\ Len(files) = 2
  /\ isPair(files[2], files[1])
  /\ files[1].relativePath = "photos/trip/beach_large.png"
  /\ Len(photos) = 1
  /\ photos[1].id = "trip-beach"

\* The pair whose base name is only the suffix gives two photos.
C13_EmptyBaseNameSplits ==
  /\ gpc = "done"
  /\ Len(files) = 2
  /\ \E i, j \in 1..2 : isPair(files[i], files[j]) /\ stem(files[i], "_small") = ""
  /\ Len(photos) = 2

(***************************************************************************)
(* C14: a key to which exactly one file maps, a file of neither suffix,    *)
(* gives exactly one photo, whose thumbnail and full are both that file's  *)
(* relative path.                                                          *)
(***************************************************************************)
C14_GenericFillsBothRoles ==
  gpc = "done" =>
    \A i \in 1..Len(files) :
      (/\ classificationOf(files[i]).type = "generic"
       /\ \A j \in 1..Len(files) : j # i => keyOf(files[j]) # keyOf(files[i]))
        => /\ Len(photos) = Len(entries)
           /\ Cardinality({k \in 1..Len(entries) : entries[k].key = keyOf(files[i])}) = 1
           /\ \A k \in 1..Len(entries) :
                entries[k].key = keyOf(files[i]) =>
                  /\ photos[k].thumbnail = files[i].relativePath
                  /\ photos[k].full = files[i].relativePath

C14_Witness ==
  /\ gpc = "done"
  /\ Len(files) = 3
  /\ \E i \in 1..3 :
       /\ files[i].fileName = "Beach.jpg"
       /\ \A j \in 1..3 : j # i => keyOf(files[j]) = "trip/beach"
  /\ \E k \in 1..Len(photos) :
       /\ photos[k].thumbnail = "photos/Beach.jpg"
       /\ photos[k].full = "photos/Beach.jpg"

(***************************************************************************)
(* C15: no two photos of a manifest carry the same id.                     *)
(***************************************************************************)
C15_IdsUnique ==
  gpc = "done" =>
    \A i, j \in 1..Len(photos) : i # j => photos[i].id # photos[j].id

C15_DuplicateIds ==
  /\ gpc = "done"
  /\ Len(files) = 2
  /\ Len(photos) = 2
  /\ photos[1].id = "beach"
  /\ photos[2].id = "beach"

(***************************************************************************)
(* C16: the order of the entries depends only on the set of files, not on  *)
(* the order the traversal delivered them in: two runs over the same files *)
(* give the same sequence of entry keys.                                   *)
(***************************************************************************)
C16_OrderCanonical ==
  (gpc = "done" /\ run = 2) => entryKeys(entries) = firstRun[1].keys

C16_OrderFollowsTraversal ==
  /\ gpc = "done"
  /\ run = 2
  /\ firstRun[1].keys = <<"Beach", "beach">>
  /\ entryKeys(entries) = <<"beach", "Beach">>

(***************************************************************************)
(* C17: two runs over the same files delivered in the same order, with the *)
(* same options, give identical photos, the photo-NNN fallback ids         *)
(* included: the counter starts at 1 in every run.                         *)
(***************************************************************************)
C17_Idempotent ==
  (gpc = "done" /\ run = 2 /\ files = firstRun[1].files) =>
    photos = firstRun[1].photos

C17_Witness ==
  /\ gpc = "done"
  /\ run = 2
  /\ files = firstRun[1].files
  /\ Len(files) = 3
  /\ \E k \in 1..Len(photos) : photos[k].id = "photo-001"
  /\ photoCounter = 2

(***************************************************************************)
(* C18: the width and height of a photo are the dimensions of its full     *)
(* file and, when that file has none, those of its thumbnail file.         *)
(***************************************************************************)
C18_WidthFallsBackToThumbnail ==
  gpc = "done" =>
    \A k \in 1..Len(photos) :
      LET fullSize      == probedSize(photos[k].full)
          thumbnailSize == probedSize(photos[k].thumbnail)
          size          == IF fullSize # Null THEN fullSize ELSE thumbnailSize
      IN  /\ photos[k].width = emitted(size, "width")
          /\ photos[k].height = emitted(size, "height")

C18_NoFallback ==
  /\ gpc = "done"
  /\ \E k \in 1..Len(photos) :
       /\ photos[k].thumbnail = "photos/beach_small.png"
       /\ photos[k].full = "photos/beach_large.jpg"
       /\ probedSize(photos[k].full) = Null
       /\ probedSize(photos[k].thumbnail) = [width |-> 500, height |-> 499]
       /\ photos[k].width = None
       /\ photos[k].height = None
       /\ photos[k].thumbnailWidth = Some(500)

(***************************************************************************)
(* C19: the orientation is 'square' when a dimension is missing or zero or *)
(* the two differ by at most 1, 'portrait' when the height exceeds the     *)
(* width by more than 1, 'landscape' when the width exceeds the height by  *)
(* more than 1; aspectRatio is emitted only when both dimensions are       *)
(* known.  The dimensions are those of the full role, else of the          *)
(* thumbnail role.                                                         *)
(***************************************************************************)
C19_Orientation ==
  gpc = "finalized" =>
    LET w == IF entry.width # None THEN entry.width ELSE entry.thumbnailWidth
        h == IF entry.height # None THEN entry.height ELSE entry.thumbnailHeight
    IN  /\ result.photo.orientation =
             (IF w = None \/ h = None THEN "square"
              ELSE IF w[1] = 0 \/ h[1] = 0 THEN "square"
              ELSE IF w[1] - h[1] <= 1 /\ h[1] - w[1] <= 1 THEN "square"
              ELSE IF h[1] > w[1] + 1 THEN "portrait"
              ELSE "landscape")
        /\ result.photo.aspectRatio # None => (w # None /\ h # None)

C19_Witness ==
  /\ gpc = "finalized"
  /\ entry.width = Some(500)
  /\ entry.height = Some(499)
  /\ result.photo.orientation = "square"
  /\ result.photo.aspectRatio = Some(998000)

(***************************************************************************)
(* C20: a file whose read or parse fails never aborts the reconciliation:  *)
(* every file is merged, and the photos are those of the same files with   *)
(* the failing ones sound, but for the dimensions of the entries the       *)
(* failing files belong to.                                                *)
(***************************************************************************)
C20_ProbeFailureTolerated ==
  /\ gpc # "failed"
  /\ gpc = "done" =>
       LET sound   == buildPhotosFromFiles(files, options, healedDisk(tree))[2]
           failing == failingKeys
       IN  /\ fileIndex = Len(files)
           /\ Len(photos) = Len(sound)
           /\ Len(photos) = Len(entries)
           /\ \A k \in 1..Len(photos) :
                /\ photos[k].id = sound[k].id
                /\ photos[k].title = sound[k].title
                /\ photos[k].thumbnail = sound[k].thumbnail
                /\ photos[k].full = sound[k].full
                /\ entries[k].key \notin failing => photos[k] = sound[k]

C20_Witness ==
  /\ gpc = "done"
  /\ Len(files) = 3
  /\ probeFails(files[1])
  /\ files[1].relativePath = "photos/trip/beach_large.png"
  /\ \E k \in 1..Len(photos) :
       /\ photos[k].full = "photos/trip/beach_large.png"
       /\ photos[k].width = None
  /\ \E k \in 1..Len(photos) :
       /\ photos[k].full = "photos/beach_large.png"
       /\ photos[k].width = Some(1200)

(***************************************************************************)
(* The generator's main: the command line, the options, the manifest and   *)
(* its write.                                                              *)
(***************************************************************************)
ASSETS_DIR == "/srv/app/assets"

DEFAULT_OUTPUT == ASSETS_DIR \o "/gallery.generated.json"

\* process.cwd(): the tool is started in the repository's root.
WorkingDirectory == "/srv/app"

Letters == charactersOf(UpperCase \o LowerCase)

SchemeCharacters == AlphaNumericCharacters \cup {"+", ".", "-"}

\* Whether value[i..] is [a-zA-Z0-9+.-]* followed by ':'
RECURSIVE schemeEndsFrom(_, _)
schemeEndsFrom(value, i) ==
  IF i > Len(value) THEN FALSE
  ELSE IF charAt(value, i) = ":" THEN TRUE
  ELSE IF charAt(value, i) \in SchemeCharacters THEN schemeEndsFrom(value, i + 1)
  ELSE FALSE

\* /^[a-zA-Z][a-zA-Z0-9+.-]*:/.test(value) || value.startsWith('//')
isProbablyUrl(value) ==
  \/ /\ Len(value) > 0
     /\ charAt(value, 1) \in Letters
     /\ schemeEndsFrom(value, 2)
  \/ startsWith(value, "//")

\* value.split(path.sep).join(path.posix.sep)
toPosixPath(value, sep) == join(split(value, sep), "/")

RECURSIVE dropLeadingSlashes(_)
dropLeadingSlashes(value) ==
  IF Len(value) > 0 /\ charAt(value, 1) = "/"
  THEN dropLeadingSlashes(slice(value, 1))
  ELSE value

\* value.replace(/^\.\/*/, '')
stripLeadingDot(value) ==
  IF Len(value) > 0 /\ charAt(value, 1) = "."
  THEN dropLeadingSlashes(slice(value, 1))
  ELSE value

\* normalizeAssetPath(value) for a string, where path.sep is sep
normalizeAssetPath(value, sep) ==
  LET trimmed == trim(value)
  IN  IF trimmed = "" THEN ""
      ELSE IF isProbablyUrl(trimmed) THEN trimmed
      ELSE LET stripped == stripLeadingDot(trimmed)
           IN  toPosixPath(IF startsWith(stripped, "assets/")
                           THEN slice(stripped, Len("assets/"))
                           ELSE stripped,
                           sep)

\* typeof value === 'string' ? value.trim() : ''
normalizeOption(value) == IF value = None THEN "" ELSE trim(value[1])

\* typeof value === 'string' ? value.trim() : undefined
normalizeOptional(value) == IF value = None THEN None ELSE Some(trim(value[1]))

\* a || b for strings
orElse(a, b) == IF a # "" THEN a ELSE b

\* a ?? b ?? c
coalesce(a, b, c) == IF a # None THEN a[1] ELSE IF b # None THEN b[1] ELSE c

NoArguments ==
  [outputArg          |-> None,
   archiveArg         |-> None,
   heroEyebrowArg     |-> None,
   heroTitleArg       |-> None,
   heroSubtitleArg    |-> None,
   heroImageArg       |-> None,
   thumbnailSuffixArg |-> None,
   fullSuffixArg      |-> None]

\* The value of an argument that begins with flag
valueOf(arg, flag) == Some(slice(arg, Len(flag)))

\* One turn of the loop over the arguments.
parseArgument(parsed, arg) ==
  IF startsWith(arg, "--archive=")
  THEN [parsed EXCEPT !.archiveArg = valueOf(arg, "--archive=")]
  ELSE IF startsWith(arg, "--hero-eyebrow=")
  THEN [parsed EXCEPT !.heroEyebrowArg = valueOf(arg, "--hero-eyebrow=")]
  ELSE IF startsWith(arg, "--hero-title=")
  THEN [parsed EXCEPT !.heroTitleArg = valueOf(arg, "--hero-title=")]
  ELSE IF startsWith(arg, "--hero-subtitle=")
  THEN [parsed EXCEPT !.heroSubtitleArg = valueOf(arg, "--hero-subtitle=")]
  ELSE IF startsWith(arg, "--hero-image=")
  THEN [parsed EXCEPT !.heroImageArg = valueOf(arg, "--hero-image=")]
  ELSE IF startsWith(arg, "--thumbnail-suffix=")
  THEN [parsed EXCEPT !.thumbnailSuffixArg = valueOf(arg, "--thumbnail-suffix=")]
  ELSE IF startsWith(arg, "--full-suffix=")
  THEN [parsed EXCEPT !.fullSuffixArg = valueOf(arg, "--full-suffix=")]
  ELSE IF falsyString(parsed.outputArg)
  THEN [parsed EXCEPT !.outputArg = Some(arg)]
  ELSE parsed

\* The loop over process.argv.slice(2)
RECURSIVE parseArguments(_, _)
parseArguments(parsed, args) ==
  IF Len(args) = 0 THEN parsed
  ELSE parseArguments(parseArgument(parsed, args[1]), Tail(args))

\* path.resolve(process.cwd(), outputArg) for a path with no '.' segments
pathResolve(cwd, target) ==
  IF startsWith(target, "/") THEN target ELSE cwd \o "/" \o target

\* main from the loop over the arguments to fullSuffix: the constants it
\* resolves.
resolveOptions(args, processEnv, sep) ==
  LET parsed == parseArguments(NoArguments, args)
  IN  [outputPath      |-> IF falsyString(parsed.outputArg) THEN DEFAULT_OUTPUT
                           ELSE pathResolve(WorkingDirectory, parsed.outputArg[1]),
       downloadArchive |-> orElse(normalizeOption(parsed.archiveArg),
                                  normalizeOption(processEnv.GALLERY_ARCHIVE)),
       heroEyebrow     |-> orElse(normalizeOption(parsed.heroEyebrowArg),
                                  normalizeOption(processEnv.GALLERY_HERO_EYEBROW)),
       heroTitle       |-> orElse(normalizeOption(parsed.heroTitleArg),
                                  normalizeOption(processEnv.GALLERY_HERO_TITLE)),
       heroSubtitle    |-> orElse(normalizeOption(parsed.heroSubtitleArg),
                                  normalizeOption(processEnv.GALLERY_HERO_SUBTITLE)),
       heroImage       |-> normalizeAssetPath(
                             orElse(normalizeOption(parsed.heroImageArg),
                                    normalizeOption(processEnv.GALLERY_HERO_IMAGE)),
                             sep),
       thumbnailSuffix |-> coalesce(normalizeOptional(parsed.thumbnailSuffixArg),
                                    normalizeOptional(processEnv.GALLERY_THUMBNAIL_SUFFIX),
                                    DEFAULT_THUMBNAIL_SUFFIX),
       fullSuffix      |-> coalesce(normalizeOptional(parsed.fullSuffixArg),
                                    normalizeOptional(processEnv.GALLERY_FULL_SUFFIX),
                                    DEFAULT_FULL_SUFFIX)]

\* if (!heroImage) { heroImage = await findDefaultHeroImage(); }
resolveHeroImage(heroImage, disk) ==
  IF heroImage = "" THEN findDefaultHeroImage(disk) ELSE heroImage

\* heroImage && !isProbablyUrl(heroImage) ? heroImage : ''
heroImageRelativePath(heroImage) ==
  IF heroImage # "" /\ ~isProbablyUrl(heroImage) THEN heroImage ELSE ""

\* heroImageRelativePath ? imageFiles.filter(...) : imageFiles
withoutHeroImage(imageFiles, relativePath) ==
  IF relativePath = "" THEN imageFiles
  ELSE SelectSeq(imageFiles, LAMBDA file : file.relativePath # relativePath)

\* if (value) { manifest[field] = value; }
optionalField(value) == IF value = "" THEN None ELSE Some(value)

\* The manifest object main assembles; a property it does not set is None.
assembleManifest(photoList, resolved, heroImage) ==
  [schema          |-> "./gallery.schema.json",
   photos          |-> Some(photoList),
   folders         |-> None,
   downloadArchive |-> optionalField(resolved.downloadArchive),
   heroEyebrow     |-> optionalField(resolved.heroEyebrow),
   heroTitle       |-> optionalField(resolved.heroTitle),
   heroSubtitle    |-> optionalField(resolved.heroSubtitle),
   heroImage       |-> optionalField(heroImage)]

\* await collectImageFiles(PHOTOS_DIR), where readdir of the root succeeds
\* or is refused; an error it throws is swallowed and no file is found.
collectOrEmpty(root, disk) ==
  IF root = "present" THEN {Returned(order) : order \in collectImageFiles(disk)}
  ELSE {Returned(<<>>)}

\* await collectImageFiles(PHOTOS_DIR), where readdir of the root succeeds
\* or is refused.
collectOrThrow(root, disk) ==
  IF root = "present" THEN {Returned(order) : order \in collectImageFiles(disk)}
  ELSE {Thrown("EACCES")}

\* fs.writeFile(outputPath, document): the files afterwards.
writeFile(fileSet, outputPath, document) ==
  {f \in fileSet : f.path # outputPath}
    \cup {[path |-> outputPath, document |-> document]}

(***************************************************************************)
(* The client's reading of a manifest document (src/app.js fetchManifest), *)
(* with window.API_BASE_URL not set.  A property a document does not have  *)
(* is None; a string property that is absent or blank is "".               *)
(***************************************************************************)
\* safeText(value, fallback) for a string
safeText(value, fallback) == IF trim(value) # "" THEN trim(value) ELSE fallback

\* toPositiveNumber(value): null is None
toPositiveNumber(value) ==
  IF value # None /\ value[1] > 0 THEN value ELSE None

\* deriveOrientation(rawOrientation, width, height)
deriveOrientation(rawOrientation, width, height) ==
  LET normalized == toLowerCase(safeText(rawOrientation, ""))
  IN  IF normalized \in {"landscape", "portrait", "square"} THEN normalized
      ELSE IF width # None /\ height # None
      THEN IF width[1] - height[1] \in -1..1 THEN "square"
           ELSE IF height[1] > width[1] THEN "portrait"
           ELSE "landscape"
      ELSE ""

\* /^([a-z][a-z\d+.-]*:)?\/\//i.test(value) || value.startsWith("data:")
isAbsoluteUrl(value) ==
  LET colon == indexOf(value, ":")
  IN  \/ startsWith(value, "//")
      \/ /\ colon > 1
         /\ charAt(value, 1) \in Letters
         /\ \A i \in 2..(colon - 1) : charAt(value, i) \in SchemeCharacters
         /\ startsWith(slice(value, colon), "//")
      \/ startsWith(value, "data:")

\* resolveAssetPath(value)
resolveAssetPath(value) ==
  LET cleaned == safeText(value, "")
  IN  IF cleaned = "" THEN ""
      ELSE IF isAbsoluteUrl(cleaned) \/ startsWith(cleaned, "/") THEN cleaned
      ELSE LET trimmed == dropLeadingSlashes(
                            IF charAt(cleaned, 1) = "." THEN slice(cleaned, 1)
                            ELSE cleaned)
           IN  "/" \o (IF startsWith(trimmed, "assets/") THEN trimmed
                       ELSE "assets/" \o trimmed)

\* The object fetchManifest makes of the photo at photoIndex of the folder
\* at folderIndex (both counted from 0); aspectRatio in millionths.
normalizePhoto(item, folderIndex, photoIndex) ==
  LET width           == toPositiveNumber(item.width)
      height          == toPositiveNumber(item.height)
      thumbnailWidth  == toPositiveNumber(item.thumbnailWidth)
      thumbnailHeight == toPositiveNumber(item.thumbnailHeight)
      given           == toPositiveNumber(item.aspectRatio)
      aspectRatio     ==
        IF given # None THEN given
        ELSE IF thumbnailWidth # None /\ thumbnailHeight # None
        THEN Some((thumbnailHeight[1] * 1000000) \div thumbnailWidth[1])
        ELSE IF width # None /\ height # None
        THEN Some((height[1] * 1000000) \div width[1])
        ELSE None
  IN  [id              |-> safeText(item.id,
                                    "photo-" \o numberToString(folderIndex) \o "-"
                                      \o numberToString(photoIndex)),
       title           |-> safeText(item.title, "Untitled photo"),
       description     |-> safeText(item.description, ""),
       thumbnail       |-> resolveAssetPath(orElse(item.thumbnail, item.full)),
       full            |-> resolveAssetPath(orElse(item.full, item.thumbnail)),
       width           |-> width,
       height          |-> height,
       thumbnailWidth  |-> thumbnailWidth,
       thumbnailHeight |-> thumbnailHeight,
       aspectRatio     |-> aspectRatio,
       orientation     |-> deriveOrientation(
                             item.orientation,
                             IF thumbnailWidth # None THEN thumbnailWidth ELSE width,
                             IF thumbnailHeight # None THEN thumbnailHeight ELSE height)]

\* What foldersPayload.map makes of the folder at folderIndex.
normalizeFolder(folder, folderIndex) ==
  LET normalized == [k \in 1..Len(folder.photos) |->
                       normalizePhoto(folder.photos[k], folderIndex, k - 1)]
  IN  [id          |-> safeText(folder.id, "folder-" \o numberToString(folderIndex)),
       name        |-> safeText(folder.name,
                                "Folder " \o numberToString(folderIndex + 1)),
       description |-> safeText(folder.description, ""),
       photos      |-> SelectSeq(normalized,
                                 LAMBDA item : item.full # "" \/ item.thumbnail # "")]

\* fetchManifest for the object the response's JSON gives: the folders it
\* returns, or the error it throws.
fetchManifest(payload) ==
  IF payload.folders = None
  THEN Thrown("The gallery configuration must include a folders array")
  ELSE Returned([k \in 1..Len(payload.folders[1]) |->
                   normalizeFolder(payload.folders[1][k], k - 1)])

(***************************************************************************)
(* Runs of main: command lines, environments, photo roots, and the files   *)
(* already at the output paths.                                            *)
(***************************************************************************)
\* Command lines: none, an output path, flags in the form --flag=value, and
\* the README's examples, which give a flag and its value as two arguments.
Argvs ==
  {<<>>,
   <<"dist/gallery.json">>,
   <<"--archive=assets/wedding-photos.zip">>,
   <<"--archive=./assets/wedding-photos.zip", "out.json">>,
   <<"--archive", "assets/wedding-photos.zip">>,
   <<"--hero-eyebrow", "Our Wedding", "--hero-title", "Elena & Max",
     "--hero-subtitle", "June 5, 2026", "--hero-image", "assets/hero.jpg">>,
   <<"--hero-eyebrow=Our Wedding", "--hero-title= Elena & Max ",
     "--hero-subtitle=June 5, 2026", "--hero-image=./assets/hero.jpg">>,
   <<"--hero-image=https://cdn.example.com/hero.jpg">>,
   <<"--hero-image=//cdn.example.com/hero.jpg">>,
   <<"--hero-image=.hidden/hero.jpg">>,
   <<"--hero-image=.//assets/photos/sunset.jpg">>,
   <<"--hero-image=photos\\hero.jpg">>,
   <<"--thumbnail-suffix=-thumb", "--full-suffix=">>}

NoEnvironment ==
  [GALLERY_ARCHIVE          |-> None,
   GALLERY_HERO_EYEBROW     |-> None,
   GALLERY_HERO_TITLE       |-> None,
   GALLERY_HERO_SUBTITLE    |-> None,
   GALLERY_HERO_IMAGE       |-> None,
   GALLERY_THUMBNAIL_SUFFIX |-> None,
   GALLERY_FULL_SUFFIX      |-> None,
   sep                      |-> "/"]

\* process.env, and path.sep of the platform in the field sep.
MainEnvironments ==
  {NoEnvironment,
   [NoEnvironment EXCEPT !.sep = "\\"],
   [NoEnvironment EXCEPT !.GALLERY_ARCHIVE = Some("assets/photos.zip"),
                         !.GALLERY_HERO_IMAGE = Some("./hero.png")]}

MainTrees ==
  {{},
   {diskFile("", "sunset.jpg", jpegOf(1200, 800))},
   {diskFile("", "hero.jpg", jpegOf(1200, 800)),
    diskFile("", "sunset.jpg", jpegOf(1200, 800))},
   {diskFile("", "beach_small.png", pngOf(500, 499)),
    diskFile("", "beach_large.png", pngOf(1200, 800)),
    diskFile("", "beach-thumb.png", pngOf(50, 49))}}

\* The README's hand-maintained manifest.
HandManifest ==
  [schema          |-> "./gallery.schema.json",
   photos          |-> None,
   folders         |-> Some(<<
     [id          |-> "day-1",
      name        |-> "Day 1",
      description |-> "Highlights from the ceremony and early celebrations.",
      photos      |-> <<
        [id              |-> "day1-photo-001",
         title           |-> "Day 1 Photo 1",
         description     |-> "",
         thumbnail       |-> "photos/day-1/photo-001-thumb.jpg",
         full            |-> "photos/day-1/photo-001.jpg",
         orientation     |-> "",
         width           |-> None,
         height          |-> None,
         thumbnailWidth  |-> None,
         thumbnailHeight |-> None,
         aspectRatio     |-> None]>>]>>),
   downloadArchive |-> Some("assets/elena-max.zip"),
   heroEyebrow     |-> Some("Our Wedding"),
   heroTitle       |-> Some("Elena & Max"),
   heroSubtitle    |-> Some("June 5, 2026"),
   heroImage       |-> Some("assets/hero.jpg")]

\* What is at the output paths before the run: nothing, or a manifest
\* under the default name.
ExistingFiles ==
  {{}, {[path |-> DEFAULT_OUTPUT, document |-> HandManifest]}}

MainInit ==
  /\ ServerOff
  /\ FunctionsIdle
  /\ ScanIdle
  /\ ClientIdle
  /\ gpc = "main"
  /\ run = 1
  /\ argv \in Argvs
  /\ environment \in MainEnvironments
  /\ photoRoot \in {"present", "missing", "unreadable"}
  /\ tree \in MainTrees
  /\ photoRoot # "present" => tree = {}
  /\ options = <<>>
  /\ settings = <<>>
  /\ files = <<>>
  /\ fileIndex = 0
  /\ entries = <<>>
  /\ photoCounter = 0
  /\ photos = <<>>
  /\ firstRun = <<>>
  /\ existing \in ExistingFiles
  /\ outputFiles = existing
  /\ writes = <<>>
  /\ exitCode = None
  /\ loaded = <<>>

\* main from its beginning to fullSuffix.
ResolveOptions ==
  /\ gpc = "main"
  /\ settings' = resolveOptions(argv, environment, environment.sep)
  /\ gpc' = "resolved"
  /\ UNCHANGED <<run, encoded, buffer, entry, result, tree, options, files, fileIndex,
                 entries, photoCounter, photos, firstRun>>
  /\ UNCHANGED <<argv, environment, photoRoot, existing, outputFiles, writes, exitCode,
                 loaded>>
  /\ UNCHANGED <<serverVars, scanVars, clientVars>>

\* try { await fs.access(PHOTOS_DIR); } catch { ...; process.exit(1); }
AccessPhotosDir ==
  /\ gpc = "resolved"
  /\ IF photoRoot = "missing"
     THEN /\ exitCode' = Some(1)
          /\ gpc' = "exited"
     ELSE /\ gpc' = "checked"
          /\ UNCHANGED exitCode
  /\ UNCHANGED <<run, encoded, buffer, entry, result, tree, options, files, fileIndex,
                 entries, photoCounter, photos, firstRun>>
  /\ UNCHANGED <<argv, environment, photoRoot, settings, existing, outputFiles, writes,
                 loaded>>
  /\ UNCHANGED <<serverVars, scanVars, clientVars>>

\* main from the default hero image to photoCounter; an error of
\* collectImageFiles reaches main().catch, which exits with 1.
CollectImages ==
  /\ gpc = "checked"
  /\ LET heroImage == resolveHeroImage(settings.heroImage, tree)
     IN  \E collected \in collectOrThrow(photoRoot, tree) :
           IF collected[1] = "throw"
           THEN /\ exitCode' = Some(1)
                /\ gpc' = "exited"
                /\ UNCHANGED <<settings, files, photoCounter>>
           ELSE /\ settings' = [settings EXCEPT !.heroImage = heroImage]
                /\ files' = withoutHeroImage(collected[2],
                                             heroImageRelativePath(heroImage))
                /\ photoCounter' = freshPhotoCounter(photoCounter)
                /\ gpc' = "collected"
                /\ UNCHANGED exitCode
  /\ UNCHANGED <<run, encoded, buffer, entry, result, tree, options, fileIndex, entries,
                 photos, firstRun>>
  /\ UNCHANGED <<argv, environment, photoRoot, existing, outputFiles, writes, loaded>>
  /\ UNCHANGED <<serverVars, scanVars, clientVars>>

\* const photos = await buildPhotosFromFiles(filteredImageFiles, {...})
BuildPhotos ==
  /\ gpc = "collected"
  /\ LET merged    == mergeFiles(<<>>, files, settings, tree)[2]
         sorted    == sortEntries(merged)
         finalized == finalizeEntries(sorted, photoCounter)
     IN  /\ entries' = sorted
         /\ fileIndex' = Len(files)
         /\ photos' = finalized.photos
         /\ photoCounter' = finalized.photoCounter
  /\ gpc' = "built"
  /\ UNCHANGED <<run, encoded, buffer, entry, result, tree, options, files, firstRun>>
  /\ UNCHANGED mainVars
  /\ UNCHANGED <<serverVars, scanVars, clientVars>>

\* main from the manifest object to its end: fs.writeFile resolves with the
\* document in the file, or rejects (the directory of the output path does
\* not exist, the file may not be written) and main().catch exits with 1.
WriteManifest ==
  /\ gpc = "built"
  /\ LET document == assembleManifest(photos, settings, settings.heroImage)
     IN  \E resolved \in BOOLEAN :
           /\ writes' = Append(writes, [path     |-> settings.outputPath,
                                        document |-> document,
                                        resolved |-> resolved])
           /\ IF resolved
              THEN /\ outputFiles' = writeFile(outputFiles, settings.outputPath, document)
                   /\ exitCode' = Some(0)
                   /\ gpc' = "written"
              ELSE /\ exitCode' = Some(1)
                   /\ gpc' = "exited"
                   /\ UNCHANGED outputFiles
  /\ UNCHANGED <<run, encoded, buffer, entry, result, tree, options, files, fileIndex,
                 entries, photoCounter, photos, firstRun>>
  /\ UNCHANGED <<argv, environment, photoRoot, settings, existing, loaded>>
  /\ UNCHANGED <<serverVars, scanVars, clientVars>>

\* The file at an output path is installed as assets/gallery.json and the
\* client fetches it.
LoadManifest ==
  /\ gpc \in {"written", "exited"}
  /\ \E file \in outputFiles :
       loaded' = [path |-> file.path, outcome |-> fetchManifest(file.document)]
  /\ gpc' = "loaded"
  /\ UNCHANGED <<run, encoded, buffer, entry, result, tree, options, files, fileIndex,
                 entries, photoCounter, photos, firstRun>>
  /\ UNCHANGED <<argv, environment, photoRoot, settings, existing, outputFiles, writes,
                 exitCode>>
  /\ UNCHANGED <<serverVars, scanVars, clientVars>>

MainNext ==
  \/ ResolveOptions
  \/ AccessPhotosDir
  \/ CollectImages
  \/ BuildPhotos
  \/ WriteManifest
  \/ LoadManifest

MainSpec == MainInit /\ [][MainNext]_vars

(***************************************************************************)
(* C21: the output file is written at most once, by a call of fs.writeFile *)
(* that is made only when the photo root was found, the files were         *)
(* collected and the photos were built, and that carries the whole         *)
(* document with those photos; when the photo root is missing or cannot be *)
(* read, no write is made, the files at the output paths are as they were  *)
(* before the run, and the process ends with exit code 1.                  *)
(***************************************************************************)
C21_WriteLast ==
  /\ Len(writes) <= 1
  /\ Len(writes) = 1 =>
       /\ gpc \in {"written", "exited", "loaded"}
       /\ photoRoot = "present"
       /\ \E order \in collectImageFiles(tree) :
            files = withoutHeroImage(order, heroImageRelativePath(settings.heroImage))
       /\ photos = buildPhotosFromFiles(files, settings, tree)[2]
       /\ writes[1].path = settings.outputPath
       /\ writes[1].document = assembleManifest(photos, settings, settings.heroImage)
  /\ outputFiles # existing =>
       /\ Len(writes) = 1
       /\ writes[1].resolved
       /\ exitCode = Some(0)
       /\ outputFiles = writeFile(existing, writes[1].path, writes[1].document)
  /\ photoRoot # "present" =>
       /\ writes = <<>>
       /\ outputFiles = existing
       /\ gpc \in {"exited", "loaded"} => exitCode = Some(1)
       /\ gpc \notin {"collected", "built", "written"}
  /\ exitCode = Some(1) => outputFiles = existing

C21_Witness ==
  /\ gpc = "exited"
  /\ photoRoot = "unreadable"
  /\ existing # {}
  /\ outputFiles = existing
  /\ exitCode = Some(1)

(***************************************************************************)
(* Vocabulary of the claims about the manifest's fields                    *)
(***************************************************************************)
\* The value given for a field on the command line, else in the
\* environment, without the white space around it.
givenValue(argument, variable) ==
  orElse(normalizeOption(argument), normalizeOption(variable))

givenArchive ==
  givenValue(parseArguments(NoArguments, argv).archiveArg, environment.GALLERY_ARCHIVE)

givenHeroImage ==
  givenValue(parseArguments(NoArguments, argv).heroImageArg,
             environment.GALLERY_HERO_IMAGE)

\* A path as the manifest is to carry it: a URL as given; of any other
\* value a leading './' and then a leading 'assets/' removed, where
\* present, and the platform's separators made '/'.
normalizedPath(value) ==
  IF isProbablyUrl(value) THEN value
  ELSE LET undotted == IF startsWith(value, "./") THEN slice(value, 2) ELSE value
           relative == IF startsWith(undotted, "assets/")
                       THEN slice(undotted, Len("assets/"))
                       ELSE undotted
       IN  join(split(relative, environment.sep), "/")

\* The document of the one call of fs.writeFile
writtenDocument == writes[1].document

(***************************************************************************)
(* C22: in the document main writes, heroImage, where a hero image was     *)
(* given, and downloadArchive, where an archive was given, are the given   *)
(* value normalized: a URL unchanged, of any other value exactly a leading *)
(* './' and then a leading 'assets/' removed and the separators made '/'.  *)
(***************************************************************************)
C22_PathsNormalized ==
  Len(writes) = 1 =>
    /\ givenHeroImage # "" =>
         writtenDocument.heroImage = optionalField(normalizedPath(givenHeroImage))
    /\ givenArchive # "" =>
         writtenDocument.downloadArchive = optionalField(normalizedPath(givenArchive))

\* The archive is emitted as it was given.
C22_ArchiveAsGiven ==
  /\ gpc = "written"
  /\ argv = <<"--archive=./assets/wedding-photos.zip", "out.json">>
  /\ writtenDocument.downloadArchive = Some("./assets/wedding-photos.zip")
  /\ normalizedPath(givenArchive) = "wedding-photos.zip"

\* The flags the README gives with their value as the next argument.
DocumentedFlags ==
  {"--archive", "--hero-eyebrow", "--hero-title", "--hero-subtitle", "--hero-image"}

\* A command line of the README's form: flags of DocumentedFlags, each
\* followed by its value, and nothing else.
isDocumentedForm(args) ==
  /\ Len(args) > 0
  /\ Len(args) % 2 = 0
  /\ \A i \in 1..Len(args) : (i % 2 = 1) => args[i] \in DocumentedFlags

\* The argument that follows flag, or None
valueAfter(args, flag) ==
  IF \E i \in 1..(Len(args) - 1) : i % 2 = 1 /\ args[i] = flag
  THEN Some(args[(CHOOSE i \in 1..(Len(args) - 1) : i % 2 = 1 /\ args[i] = flag) + 1])
  ELSE None

(***************************************************************************)
(* C23: for a command line that gives flags and their values as separate   *)
(* arguments, as the README does, the document main writes carries the     *)
(* value given after --archive as downloadArchive and the values given     *)
(* after --hero-eyebrow, --hero-title and --hero-subtitle as heroEyebrow,  *)
(* heroTitle and heroSubtitle, and the document is written to the default  *)
(* output path assets/gallery.generated.json.                              *)
(***************************************************************************)
C23_DocumentedInvocation ==
  (Len(writes) = 1 /\ isDocumentedForm(argv)) =>
    /\ writes[1].path = DEFAULT_OUTPUT
    /\ valueAfter(argv, "--archive") # None =>
         writtenDocument.downloadArchive = valueAfter(argv, "--archive")
    /\ valueAfter(argv, "--hero-eyebrow") # None =>
         writtenDocument.heroEyebrow = valueAfter(argv, "--hero-eyebrow")
    /\ valueAfter(argv, "--hero-title") # None =>
         writtenDocument.heroTitle = valueAfter(argv, "--hero-title")
    /\ valueAfter(argv, "--hero-subtitle") # None =>
         writtenDocument.heroSubtitle = valueAfter(argv, "--hero-subtitle")

\* The flag is taken for the output path and its value is dropped.
C23_FlagTakenForOutput ==
  /\ gpc = "written"
  /\ argv = <<"--archive", "assets/wedding-photos.zip">>
  /\ environment.GALLERY_ARCHIVE = None
  /\ writes[1].path = WorkingDirectory \o "/--archive"
  /\ writtenDocument.downloadArchive = None
  /\ \E file \in outputFiles : file.path = WorkingDirectory \o "/--archive"

(***************************************************************************)
(* C24: fetchManifest, given the document main has written, returns the    *)
(* folders without throwing, and every photo of the document is a photo of *)
(* one of the folders it returns.                                          *)
(***************************************************************************)
C24_ManifestAccepted ==
  (gpc = "loaded" /\ Len(writes) = 1 /\ writes[1].resolved
     /\ loaded.path = writes[1].path) =>
    /\ loaded.outcome[1] = "return"
    /\ \A k \in 1..Len(photos) :
         \E f \in 1..Len(loaded.outcome[2]) :
           \E i \in 1..Len(loaded.outcome[2][f].photos) :
             loaded.outcome[2][f].photos[i].id = photos[k].id

\* The client throws on the document of a run that found photos.
C24_GeneratedManifestRejected ==
  /\ gpc = "loaded"
  /\ Len(writes) = 1
  /\ writes[1].resolved
  /\ loaded.path = writes[1].path
  /\ Len(photos) > 0
  /\ writtenDocument.photos = Some(photos)
  /\ writtenDocument.folders = None
  /\ loaded.outcome = Thrown("The gallery configuration must include a folders array")

(***************************************************************************)
(* Vocabulary of the claims about the merge by role                        *)
(***************************************************************************)
\* The dimensions an entry records for a role whose file has the probed
\* size: both absent when there is none.
recorded(size) ==
  IF size = Null THEN <<None, None>> ELSE <<Some(size.width), Some(size.height)>>

\* The classification types and the keys of a list of files, in its order.
RECURSIVE fileTypes(_)
fileTypes(list) ==
  IF Len(list) = 0 THEN <<>>
  ELSE <<classificationOf(list[1]).type>> \o fileTypes(Tail(list))

RECURSIVE fileKeys(_)
fileKeys(list) ==
  IF Len(list) = 0 THEN <<>> ELSE <<keyOf(list[1])>> \o fileKeys(Tail(list))

\* The file at position i writes the role: it is classified as the role, or
\* it is generic and no earlier file of its key is generic or classified as
\* the role.
writesRole(types, keys, i, role) ==
  \/ types[i] = role
  \/ /\ types[i] = "generic"
     /\ \A j \in 1..(i - 1) : keys[j] = keys[i] => types[j] \notin {role, "generic"}

\* The greatest element of a non-empty set of numbers.
latest(S) == CHOOSE i \in S : \A j \in S : j <= i

\* The path the last writer of a role among the first n files leaves in it.
lastWrittenAmong(types, keys, n, key, role) ==
  LET writers == {i \in 1..n : keys[i] = key /\ writesRole(types, keys, i, role)}
  IN  IF writers = {} THEN None ELSE Some(files[latest(writers)].relativePath)

(***************************************************************************)
(* C25: after every merge, the thumbnailWidth and thumbnailHeight of every *)
(* entry are the dimensions probed from the file its thumbnail names       *)
(* (absent when that file's probe fails or gives none), and its width and  *)
(* height are those probed from the file its full names.                   *)
(***************************************************************************)
C25_DimensionsOfRecordedFile ==
  gpc \in {"merging", "done"} =>
    \A k \in 1..Len(entries) :
      /\ entries[k].thumbnail # None =>
           <<entries[k].thumbnailWidth, entries[k].thumbnailHeight>>
             = recorded(probedSize(entries[k].thumbnail[1]))
      /\ entries[k].full # None =>
           <<entries[k].width, entries[k].height>>
             = recorded(probedSize(entries[k].full[1]))

\* The thumbnail names a file with no dimensions and keeps the dimensions
\* of the file it named before.
C25_StaleThumbnailDimensions ==
  /\ gpc = "done"
  /\ \E k \in 1..Len(entries) :
       /\ entries[k].thumbnail = Some("photos/dune_small.jpg")
       /\ probedSize("photos/dune_small.jpg") = Null
       /\ entries[k].thumbnailWidth = Some(400)
       /\ photos[k].thumbnail = "photos/dune_small.jpg"
       /\ photos[k].thumbnailWidth = Some(400)
       /\ photos[k].thumbnailHeight = Some(300)

(***************************************************************************)
(* C26: when the files are merged, every key of a file has exactly one     *)
(* entry and one photo, and each role of the entry holds the path of the   *)
(* last file of the key that wrote the role: a file classified as the role *)
(* or a generic file that found the role empty.                            *)
(***************************************************************************)
C26_LastWriteWins ==
  gpc = "done" =>
    LET types == fileTypes(files)
        keys  == fileKeys(files)
        n     == Len(files)
    IN  /\ Len(photos) = Len(entries)
        /\ Len(entries) = Cardinality({keys[i] : i \in 1..n})
        /\ \A i \in 1..n : \E k \in 1..Len(entries) : entries[k].key = keys[i]
        /\ \A k \in 1..Len(entries) :
             /\ entries[k].thumbnail
                  = lastWrittenAmong(types, keys, n, entries[k].key, "thumbnail")
             /\ entries[k].full
                  = lastWrittenAmong(types, keys, n, entries[k].key, "full")
             /\ photos[k].thumbnail =
                  (IF entries[k].thumbnail # None THEN entries[k].thumbnail[1]
                   ELSE entries[k].full[1])
             /\ photos[k].full =
                  (IF entries[k].full # None THEN entries[k].full[1]
                   ELSE entries[k].thumbnail[1])

C26_Witness ==
  /\ gpc = "done"
  /\ Len(files) = 3
  /\ files[1].fileName = "beach_large.png"
  /\ files[2].fileName = "beach.jpg"
  /\ files[3].fileName = "beach_large.jpg"
  /\ Len(photos) = 1
  /\ photos[1].full = "photos/beach_large.jpg"
  /\ photos[1].thumbnail = "photos/beach.jpg"

\* The slugs of a list of entries: of the directory and the base name,
\* joined by a space.
RECURSIVE entrySlugs(_)
entrySlugs(list) ==
  IF Len(list) = 0 THEN <<>>
  ELSE <<toKebabCase(join(SelectSeq(<<list[1].relativeDir, list[1].baseName>>,
                                    LAMBDA part : part # ""), " "))>>
         \o entrySlugs(Tail(list))

\* The fallback ids in the order in which they are given out.
FallbackIds == <<"photo-001", "photo-002", "photo-003">>

(***************************************************************************)
(* C27: in the photos array, the k-th photo whose entry has an empty slug  *)
(* has the id photo-00k, and a photo whose entry has a slug has the slug   *)
(* as its id.                                                              *)
(***************************************************************************)
C27_FallbackIdsConsecutive ==
  gpc = "done" =>
    LET slugs == entrySlugs(entries)
    IN  \A k \in 1..Len(photos) :
          IF slugs[k] = ""
          THEN photos[k].id = FallbackIds[Cardinality({j \in 1..k : slugs[j] = ""})]
          ELSE photos[k].id = slugs[k]

C27_Witness ==
  /\ gpc = "done"
  /\ Len(photos) = 3
  /\ photos[1].id = "photo-001"
  /\ photos[2].id = "a"
  /\ photos[3].id = "photo-002"

(***************************************************************************)
(* The loop of buildPhotosFromFiles, one await at a time                   *)
(***************************************************************************)
\* Every turn of the loop started at once, none waiting for another.
loopProceedsUnawaited(flying) == TRUE

\* for (const file of files) { ... await getImageDimensions(...) ... }: the
\* next turn begins when no probe of the loop is awaited.
loopProceeds(flying) == flying = {}

\* The turn's statements before the await: the entry is created unless the
\* Map has one for the key.
entryEnsured(map, file, opts) ==
  LET ext            == extname(file.fileName)
      baseName       == basename(file.fileName, ext)
      classification == classifyBaseName(baseName, opts.thumbnailSuffix,
                                         opts.fullSuffix)
      cleanBaseName  == IF classification.cleanBaseName # ""
                        THEN classification.cleanBaseName
                        ELSE baseName
      entryKey       == deriveEntryKey(file.relativeDir, cleanBaseName)
  IN  IF entriesHas(map, entryKey) THEN map
      ELSE Append(map, newEntry(entryKey, file.relativeDir, cleanBaseName))

ReconcilerInit == GeneratorInit

\* A turn of the loop up to its await: the probe of the next file is begun.
BeginMerge ==
  /\ gpc = "merging"
  /\ fileIndex + Cardinality(inFlight) < Len(files)
  /\ loopProceeds(inFlight)
  /\ LET next == fileIndex + Cardinality(inFlight) + 1
     IN  /\ entries' = entryEnsured(entries, files[next], options)
         /\ inFlight' = inFlight \cup {next}
  /\ UNCHANGED <<gpc, run, tree, options, files, fileIndex, photoCounter, photos,
                 firstRun>>
  /\ UNCHANGED <<encoded, buffer, entry, result>>
  /\ UNCHANGED <<serverVars, mainVars, clientVars, scanOffset, iterations>>

\* The rest of a turn: an awaited probe settles, its error is caught, and
\* the role branches run on the entry as the Map holds it now.
EndMerge ==
  /\ gpc = "merging"
  /\ \E i \in inFlight :
       LET probe      == getImageDimensions(files[i].absolutePath, tree)
           dimensions == IF probe[1] = "throw" THEN Null ELSE probe[2]
       IN  /\ entries' = mergeProbed(entries, files[i], options, dimensions)
           /\ inFlight' = inFlight \ {i}
  /\ fileIndex' = fileIndex + 1
  /\ UNCHANGED <<gpc, run, tree, options, files, photoCounter, photos, firstRun>>
  /\ UNCHANGED <<encoded, buffer, entry, result>>
  /\ UNCHANGED <<serverVars, mainVars, clientVars, scanOffset, iterations>>

ReconcilerNext == CollectFiles \/ BeginMerge \/ EndMerge \/ EmitPhotos

ReconcilerSpec == ReconcilerInit /\ [][ReconcilerNext]_vars

(***************************************************************************)
(* C28: at most one file's probe is awaited at any time and it is that of  *)
(* the file after the ones merged; every file begun has its entry; and     *)
(* each role of every entry holds what the files merged so far, taken in   *)
(* input order, leave in it, with the dimensions of the full role those of *)
(* its file.                                                               *)
(***************************************************************************)
C28_MergesOneAtATime ==
  gpc \in {"merging", "done"} =>
    LET types == fileTypes(files)
        keys  == fileKeys(files)
    IN  /\ Cardinality(inFlight) <= 1
        /\ inFlight \subseteq {fileIndex + 1}
        /\ \A i \in 1..(fileIndex + Cardinality(inFlight)) :
             Cardinality({k \in 1..Len(entries) : entries[k].key = keys[i]}) = 1
        /\ \A k \in 1..Len(entries) :
             /\ entries[k].thumbnail
                  = lastWrittenAmong(types, keys, fileIndex, entries[k].key,
                                     "thumbnail")
             /\ entries[k].full
                  = lastWrittenAmong(types, keys, fileIndex, entries[k].key, "full")
             /\ entries[k].full # None =>
                  <<entries[k].width, entries[k].height>>
                    = recorded(probedSize(entries[k].full[1]))

\* The third file of a key is being probed while its entry holds what the
\* first two left.
C28_Witness ==
  /\ gpc = "merging"
  /\ inFlight = {3}
  /\ fileIndex = 2
  /\ Len(entries) = 1
  /\ \A i \in 1..3 : keyOf(files[i]) = entries[1].key
  /\ classificationOf(files[1]).type = "full"
  /\ classificationOf(files[3]).type = "full"
  /\ entries[1].full = Some(files[1].relativePath)
  /\ entries[1].thumbnail = Some(files[2].relativePath)

(***************************************************************************)
(* The scan loop of parseJpegDimensions, one turn at a time                *)
(***************************************************************************)
\* Bytes between SOI and what follows in the buffers scanned.
MaxScanBytes == 3

ScanBytes == {0, 1, 192, 196, 217, 224, 255}

ScanBodies == UNION {[1..n -> ScanBytes] : n \in 0..MaxScanBytes}

\* SOI, a few bytes of any kind, and then nothing or a frame header.
ScanBuffers ==
  {<<255, 216>> \o body \o tail :
     body \in ScanBodies, tail \in {<<>>, encodeFrame(1200, 800)}}

\* A turn of the loop that leaves out `offset += 2` after the length is
\* read.
scanTurnLengthUncounted(buf, offset) ==
  LET atMarker == skipFill(buf, offset)
  IN  IF atMarker >= Len(buf) THEN Thrown("Failed to locate JPEG dimensions")
      ELSE
        LET marker   == buf[atMarker + 1]
            atLength == atMarker + 1
        IN  IF marker = 217 \/ marker = 218
            THEN Thrown("Failed to locate JPEG dimensions")
            ELSE IF ~inRange(buf, atLength, 2) THEN Thrown("RangeError")
            ELSE
              LET segmentLength == readUInt16BE(buf, atLength)
                  atData        == atLength + 2
              IN  IF marker \in JPEG_SOF_MARKERS
                  THEN IF atData + 5 > Len(buf)
                       THEN Thrown("Failed to locate JPEG dimensions")
                       ELSE Returned([width  |-> readUInt16BE(buf, atData + 3),
                                      height |-> readUInt16BE(buf, atData + 1)])
                  ELSE <<"continue", (atLength + segmentLength) - 2>>

\* One turn of the while loop from its head at offset: the offset of the
\* next head, the dimensions returned, or the error thrown (a break leads to
\* the throw after the loop).
scanTurn(buf, offset) ==
  LET atMarker == skipFill(buf, offset)
  IN  IF atMarker >= Len(buf) THEN Thrown("Failed to locate JPEG dimensions")
      ELSE
        LET marker   == buf[atMarker + 1]
            atLength == atMarker + 1
        IN  IF marker = 217 \/ marker = 218
            THEN Thrown("Failed to locate JPEG dimensions")
            ELSE IF ~inRange(buf, atLength, 2) THEN Thrown("RangeError")
            ELSE
              LET segmentLength == readUInt16BE(buf, atLength)
                  atData        == atLength + 2
              IN  IF marker \in JPEG_SOF_MARKERS
                  THEN IF atData + 5 > Len(buf)
                       THEN Thrown("Failed to locate JPEG dimensions")
                       ELSE Returned([width  |-> readUInt16BE(buf, atData + 3),
                                      height |-> readUInt16BE(buf, atData + 1)])
                  ELSE <<"continue", (atData + segmentLength) - 2>>

ScanInit ==
  /\ ServerOff
  /\ OthersIdle
  /\ RunIdle
  /\ gpc = "call"
  /\ encoded = None
  /\ entry = <<>>
  /\ result = <<>>
  /\ buffer \in ScanBuffers \cup MalformedJpegs
                  \cup {encodeJpeg(image) : image \in JpegImages}

\* parseJpegDimensions up to the loop: the SOI test and `let offset = 2`.
EnterScan ==
  /\ gpc = "call"
  /\ IF ~inRange(buffer, 0, 2)
     THEN /\ result' = Thrown("RangeError")
          /\ gpc' = "thrown"
          /\ UNCHANGED scanOffset
     ELSE IF readUInt16BE(buffer, 0) # 65496
     THEN /\ result' = Thrown("Invalid JPEG header")
          /\ gpc' = "thrown"
          /\ UNCHANGED scanOffset
     ELSE /\ scanOffset' = 2
          /\ gpc' = "scanning"
          /\ UNCHANGED result
  /\ UNCHANGED <<encoded, buffer, entry, inFlight, iterations>>
  /\ UNCHANGED <<run, tree, options, files, fileIndex, entries, photoCounter,
                 photos, firstRun>>
  /\ UNCHANGED <<serverVars, mainVars, clientVars>>

\* One turn of `while (offset < length)`.  The turns are counted up to the
\* number of bytes of the buffer.
ScanTurn ==
  /\ gpc = "scanning"
  /\ scanOffset < Len(buffer)
  /\ Len(iterations) <= Len(buffer)
  /\ iterations' = Append(iterations, scanOffset)
  /\ LET outcome == scanTurn(buffer, scanOffset)
     IN  IF outcome[1] = "continue"
         THEN /\ scanOffset' = outcome[2]
              /\ UNCHANGED <<gpc, result>>
         ELSE /\ result' = outcome
              /\ gpc' = IF outcome[1] = "return" THEN "returned" ELSE "thrown"
              /\ UNCHANGED scanOffset
  /\ UNCHANGED <<encoded, buffer, entry, inFlight>>
  /\ UNCHANGED <<run, tree, options, files, fileIndex, entries, photoCounter,
                 photos, firstRun>>
  /\ UNCHANGED <<serverVars, mainVars, clientVars>>

\* The loop condition fails: throw new Error('Failed to locate JPEG
\* dimensions').
LeaveScan ==
  /\ gpc = "scanning"
  /\ scanOffset >= Len(buffer)
  /\ result' = Thrown("Failed to locate JPEG dimensions")
  /\ gpc' = "thrown"
  /\ UNCHANGED <<encoded, buffer, entry, inFlight, scanOffset, iterations>>
  /\ UNCHANGED <<run, tree, options, files, fileIndex, entries, photoCounter,
                 photos, firstRun>>
  /\ UNCHANGED <<serverVars, mainVars, clientVars>>

ScanNext == EnterScan \/ ScanTurn \/ LeaveScan

ScanSpec == ScanInit /\ [][ScanNext]_vars

\* The statements of a synchronous function run on: a step that can be
\* taken is taken.
ScanFairSpec == ScanSpec /\ WF_vars(ScanNext)

\* The marker codes of a start of frame.
StartOfFrameCodes == (192..207) \ {196, 200, 204}

\* The first byte other than 0xFF at or after an offset (counted from 0).
markerAt(offset) ==
  CHOOSE m \in offset..(Len(buffer) - 1) :
    /\ buffer[m + 1] # 255
    /\ \A j \in offset..(m - 1) : buffer[j + 1] = 255

\* The call has ended: by the dimensions of a frame segment, read at its
\* last turn, or by one of its errors.
scanEnded ==
  \/ /\ gpc = "returned"
     /\ iterations # <<>>
     /\ LET m == markerAt(iterations[Len(iterations)])
        IN  /\ buffer[m + 1] \in StartOfFrameCodes
            /\ m + 8 <= Len(buffer)
            /\ result = Returned([height |-> (buffer[m + 5] * 256) + buffer[m + 6],
                                  width  |-> (buffer[m + 7] * 256) + buffer[m + 8]])
  \/ /\ gpc = "thrown"
     /\ result \in {Thrown("RangeError"), Thrown("Invalid JPEG header"),
                    Thrown("Failed to locate JPEG dimensions")}

\* The offsets at the heads of the turns rise strictly, lie inside the
\* buffer, and the offset after the last turn is greater than at its head.
scanAdvances ==
  /\ \A i \in 1..Len(iterations) : iterations[i] \in 2..(Len(buffer) - 1)
  /\ \A i \in 1..(Len(iterations) - 1) : iterations[i] < iterations[i + 1]
  /\ (gpc = "scanning" /\ iterations # <<>>)
       => scanOffset > iterations[Len(iterations)]
  /\ gpc \in {"returned", "thrown"} =>
       /\ scanEnded
       /\ result = parseJpegDimensions(buffer)

(***************************************************************************)
(* C29: on every buffer parseJpegDimensions ends, by returning the         *)
(* dimensions read from a segment whose marker is a start-of-frame code    *)
(* (never 0xC4, 0xC8, 0xCC) or by throwing; and the offset at the head of  *)
(* every turn of its loop is greater than at the head of the turn before.  *)
(***************************************************************************)
C29_ScanTerminates == []scanAdvances /\ <>(gpc \in {"returned", "thrown"})

\* A segment that declares the length 0 was passed and the call has ended.
C29_Witness ==
  /\ gpc = "thrown"
  /\ Len(buffer) >= 5
  /\ SubSeq(buffer, 3, 5) = <<224, 0, 0>>
  /\ iterations = <<2, 3>>
  /\ result = Thrown("Failed to locate JPEG dimensions")

(***************************************************************************)
(* The client's navigation: app.js from boot to the handlers of its events *)
(***************************************************************************)
AGGREGATE_FOLDER_ID == "alle"

AGGREGATE_FOLDER_NAME == "All Photos"

\* normalizeFolderId(value)
normalizeFolderId(value) ==
  IF safeText(value, "") # "" THEN safeText(value, "") ELSE AGGREGATE_FOLDER_ID

\* The photos of every folder from the k-th on, each with the indexes of
\* its source.
RECURSIVE aggregatePhotosFrom(_, _)
aggregatePhotosFrom(rawFolders, k) ==
  IF k > Len(rawFolders) THEN <<>>
  ELSE [i \in 1..Len(rawFolders[k].photos) |->
          rawFolders[k].photos[i]
            @@ [sourceFolderIndex |-> k - 1, sourcePhotoIndex |-> i - 1]]
         \o aggregatePhotosFrom(rawFolders, k + 1)

buildFoldersWithAggregate(rawFolders) ==
  <<[id          |-> AGGREGATE_FOLDER_ID,
     name        |-> AGGREGATE_FOLDER_NAME,
     description |-> "All images from every folder.",
     photos      |-> aggregatePhotosFrom(rawFolders, 1)]>> \o rawFolders

\* The module variables a handler reads and writes, as one value.
uiNow ==
  [currentFolderIndex |-> currentFolderIndex,
   currentPhotos      |-> currentPhotos,
   currentPhotoIndex  |-> currentPhotoIndex,
   detailHidden       |-> detailHidden,
   historyStates      |-> historyStates]

\* updateHistoryState({ folderId, photoId, replace }): the states the
\* session history has held; an entry replaced is kept among them.
updateHistoryState(ui, folderId, wantedId) ==
  [ui EXCEPT !.historyStates =
     @ \cup {[folderId |-> normalizeFolderId(folderId),
              photoId  |-> safeText(wantedId, "")]}]

\* folders[index] is an object (indexes count from 0).
hasFolder(gallery, index) == index \in 0..(Len(gallery) - 1)

\* folders.findIndex((folder) => folder.id === id)
findFolderIndexById(gallery, id) ==
  IF \E k \in 1..Len(gallery) : gallery[k].id = id
  THEN (CHOOSE k \in 1..Len(gallery) :
          /\ gallery[k].id = id
          /\ \A j \in 1..(k - 1) : gallery[j].id # id) - 1
  ELSE -1

\* findPhotoIndexById(gallery, folderIndex, photoId)
findPhotoIndexById(gallery, folderIndex, wantedId) ==
  IF ~hasFolder(gallery, folderIndex) THEN -1
  ELSE LET list == gallery[folderIndex + 1].photos
       IN  IF \E k \in 1..Len(list) : list[k].id = wantedId
           THEN (CHOOSE k \in 1..Len(list) :
                   /\ list[k].id = wantedId
                   /\ \A j \in 1..(k - 1) : list[j].id # wantedId) - 1
           ELSE -1

\* setActiveFolder(gallery, index, { updateHistory })
setActiveFolder(gallery, ui, index, updateHistory) ==
  IF ~hasFolder(gallery, index) THEN ui
  ELSE LET selected == [ui EXCEPT !.currentFolderIndex = index,
                                  !.currentPhotos = gallery[index + 1].photos,
                                  !.currentPhotoIndex = -1]
       IN  IF updateHistory
           THEN updateHistoryState(selected, gallery[index + 1].id, "")
           ELSE selected

\* openDetail(gallery, folderIndex, photoIndex, { updateHistory })
openDetail(gallery, ui, folderIndex, photoIndex, updateHistory) ==
  IF \/ ~hasFolder(gallery, folderIndex)
     \/ photoIndex \notin 0..(Len(gallery[folderIndex + 1].photos) - 1)
  THEN ui
  ELSE LET active == IF folderIndex # ui.currentFolderIndex
                     THEN setActiveFolder(gallery, ui, folderIndex, FALSE)
                     ELSE ui
           list   == gallery[active.currentFolderIndex + 1].photos
           opened == [active EXCEPT !.currentPhotos = list,
                                    !.currentPhotoIndex = photoIndex,
                                    !.detailHidden = FALSE]
       IN  IF updateHistory
           THEN updateHistoryState(opened,
                                   gallery[active.currentFolderIndex + 1].id,
                                   list[photoIndex + 1].id)
           ELSE opened

\* showGrid(gallery, { updateHistory })
showGrid(gallery, ui, updateHistory) ==
  LET grid == [ui EXCEPT !.currentPhotoIndex = -1, !.detailHidden = TRUE]
  IN  IF updateHistory
      THEN updateHistoryState(grid,
                              IF hasFolder(gallery, ui.currentFolderIndex)
                              THEN gallery[ui.currentFolderIndex + 1].id
                              ELSE AGGREGATE_FOLDER_ID,
                              "")
      ELSE grid

\* showRelative with the next index not taken modulo the number of photos.
showRelativeUnwrapped(gallery, ui, delta) ==
  IF ui.currentPhotoIndex = -1 \/ Len(ui.currentPhotos) = 0 THEN ui
  ELSE openDetail(gallery, ui, ui.currentFolderIndex, ui.currentPhotoIndex + delta, TRUE)

\* showRelative(gallery, delta)
showRelative(gallery, ui, delta) ==
  IF ui.currentPhotoIndex = -1 \/ Len(ui.currentPhotos) = 0 THEN ui
  ELSE openDetail(gallery, ui, ui.currentFolderIndex,
                  (ui.currentPhotoIndex + delta + Len(ui.currentPhotos))
                    % Len(ui.currentPhotos),
                  TRUE)

\* handlePopState(gallery, event) for the state of the event, or of the location
\* when the event has none.
handlePopState(gallery, ui, target) ==
  IF Len(gallery) = 0 THEN ui
  ELSE LET found             == findFolderIndexById(gallery, target.folderId)
           aggregate         == findFolderIndexById(gallery, AGGREGATE_FOLDER_ID)
           targetFolderIndex == IF found # -1 THEN found
                                ELSE IF aggregate # -1 THEN aggregate
                                ELSE 0
           active            == setActiveFolder(gallery, ui, targetFolderIndex, FALSE)
           photoIndex        == findPhotoIndexById(gallery, targetFolderIndex, target.photoId)
       IN  IF target.photoId # "" /\ photoIndex # -1
           THEN openDetail(gallery, active, targetFolderIndex, photoIndex, FALSE)
           ELSE showGrid(gallery, active, FALSE)

\* A photo of a manifest with nothing but an id and its two paths.
photoItem(id) ==
  [id              |-> id,
   title           |-> "",
   description     |-> "",
   thumbnail       |-> "photos/" \o id \o "-thumb.jpg",
   full            |-> "photos/" \o id \o ".jpg",
   orientation     |-> "",
   width           |-> None,
   height          |-> None,
   thumbnailWidth  |-> None,
   thumbnailHeight |-> None,
   aspectRatio     |-> None]

folderItem(id, photoIds) ==
  [id          |-> id,
   name        |-> "",
   description |-> "",
   photos      |-> [k \in 1..Len(photoIds) |-> photoItem(photoIds[k])]]

\* Manifests the page is opened with: no folder, one folder of three
\* photos, two folders, a folder with no photo, one id in two folders, and
\* a manifest with no folders array.
ClientManifests ==
  {[HandManifest EXCEPT !.folders = Some(list)] :
     list \in {<<>>,
               <<folderItem("day-1", <<"a", "b", "c">>)>>,
               <<folderItem("day-1", <<"a", "b">>), folderItem("day-2", <<"c">>)>>,
               <<folderItem("day-1", <<>>), folderItem("day-2", <<"c">>)>>,
               <<folderItem("day-1", <<"a">>), folderItem("day-2", <<"a", "b">>)>>}}
    \cup {HandManifest, [HandManifest EXCEPT !.folders = None]}

\* The photo ids a location's path can name.
LocationPhotoIds == {"", "a", "c", "gone"}

\* The states popstate can deliver: one the history has held, or none, for
\* which the location is parsed.
PopStates ==
  historyStates
    \cup {[folderId |-> AGGREGATE_FOLDER_ID, photoId |-> id] : id \in LocationPhotoIds}

\* The module variables take the values of a handler's outcome.
uiBecomes(ui) ==
  /\ currentFolderIndex' = ui.currentFolderIndex
  /\ currentPhotos' = ui.currentPhotos
  /\ currentPhotoIndex' = ui.currentPhotoIndex
  /\ detailHidden' = ui.detailHidden
  /\ historyStates' = ui.historyStates

\* What no handler of the client touches.
clientFrame ==
  /\ UNCHANGED <<serverVars, generatorVars, scanVars>>
  /\ UNCHANGED <<argv, environment, photoRoot, settings, existing, outputFiles, writes,
                 exitCode>>

\* The page is open, its script has run and fetchManifest is awaited.
ClientInit ==
  /\ ServerOff
  /\ GeneratorIdle
  /\ MainIdle
  /\ ScanIdle
  /\ cpc = "loading"
  /\ folders = <<>>
  /\ currentFolderIndex = 0
  /\ currentPhotos = <<>>
  /\ currentPhotoIndex = -1
  /\ detailHidden = TRUE
  /\ historyStates = {}

\* boot from the settling of fetchManifest on, for the photo id the
\* location names.
booted(gallery, ui, wantedId) ==
  LET aggregateIndex == findFolderIndexById(gallery, AGGREGATE_FOLDER_ID)
      initial        == IF aggregateIndex # -1 THEN aggregateIndex ELSE 0
      active         == setActiveFolder(gallery, ui, initial, FALSE)
      photoIndex     == findPhotoIndexById(gallery, initial, wantedId)
      opened         == IF wantedId # "" /\ photoIndex # -1
                        THEN openDetail(gallery, active, initial, photoIndex, FALSE)
                        ELSE active
  IN  updateHistoryState(
        opened,
        IF hasFolder(gallery, opened.currentFolderIndex)
        THEN gallery[opened.currentFolderIndex + 1].id
        ELSE AGGREGATE_FOLDER_ID,
        IF opened.currentPhotoIndex # -1
        THEN opened.currentPhotos[opened.currentPhotoIndex + 1].id
        ELSE "")

Boot ==
  /\ cpc # "closed"
  /\ loaded = <<>>
  /\ \E payload \in ClientManifests, wantedId \in LocationPhotoIds :
       LET outcome == fetchManifest(payload)
       IN  /\ loaded' = [path |-> "/assets/gallery.json", outcome |-> outcome]
           /\ IF outcome[1] = "throw"
              THEN /\ cpc' = "failed"
                   /\ UNCHANGED <<folders, currentFolderIndex, currentPhotos,
                                  currentPhotoIndex, detailHidden, historyStates>>
              ELSE IF Len(outcome[2]) = 0
              THEN /\ cpc' = "empty"
                   /\ UNCHANGED <<folders, currentFolderIndex, currentPhotos,
                                  currentPhotoIndex, detailHidden, historyStates>>
              ELSE LET gallery == buildFoldersWithAggregate(outcome[2])
                   IN  /\ cpc' = "booted"
                       /\ folders' = gallery
                       /\ uiBecomes(booted(gallery, uiNow, wantedId))
  /\ clientFrame

\* A handler has run to its end: its outcome, and its name for the record.
handled(name, ui) ==
  /\ cpc # "closed"
  /\ cpc' = name
  /\ uiBecomes(ui)
  /\ UNCHANGED <<folders, loaded>>
  /\ clientFrame

\* A click, or Enter or Space, on an item of the gallery.
OpenItem ==
  \E photoIndex \in 0..(Len(currentPhotos) - 1) :
    handled("open", openDetail(folders, uiNow, currentFolderIndex, photoIndex, TRUE))

\* The next and previous buttons of the detail view.
ClickNext == handled("next", showRelative(folders, uiNow, 1))

ClickPrevious == handled("previous", showRelative(folders, uiNow, -1))

\* The close button and a click on the backdrop of the detail view.
CloseDetail == handled("close", showGrid(folders, uiNow, TRUE))

\* keydown on the document: Escape, ArrowRight, ArrowLeft.
KeyDown ==
  \E key \in {"Escape", "ArrowRight", "ArrowLeft"} :
    handled(IF key = "Escape" THEN "close"
            ELSE IF key = "ArrowRight" THEN "next" ELSE "previous",
            IF currentPhotoIndex = -1 THEN uiNow
            ELSE IF key = "Escape" THEN showGrid(folders, uiNow, TRUE)
            ELSE IF key = "ArrowRight" THEN showRelative(folders, uiNow, 1)
            ELSE showRelative(folders, uiNow, -1))

\* A click on a folder button; the buttons exist when there are two folders
\* or more.
ClickFolder ==
  /\ Len(folders) > 1
  /\ \E index \in 0..(Len(folders) - 1) :
       handled("folder",
               showGrid(folders, setActiveFolder(folders, uiNow, index, TRUE), FALSE))

\* handleFolderKeydown for an arrow key, with the focus on a folder button
\* or elsewhere (-1).
FolderKeydown ==
  /\ Len(folders) > 1
  /\ \E direction \in {-1, 1}, focused \in -1..(Len(folders) - 1) :
       LET fallbackIndex == IF focused >= 0 THEN focused ELSE currentFolderIndex
           nextIndex     == (fallbackIndex + direction + Len(folders)) % Len(folders)
       IN  handled("folder",
                   showGrid(folders,
                            setActiveFolder(folders, uiNow, nextIndex, TRUE), FALSE))

\* A click on the home link.
ClickHome ==
  handled("home",
          IF Len(folders) = 0 THEN uiNow
          ELSE showGrid(folders, setActiveFolder(folders, uiNow, 0, TRUE), FALSE))

\* popstate; the listener is added at the end of a boot that found folders.
PopState ==
  /\ loaded # <<>>
  /\ Len(folders) > 0
  /\ \E target \in PopStates :
       handled("popstate", handlePopState(folders, uiNow, target))

ClientNext ==
  \/ Boot
  \/ OpenItem
  \/ ClickNext
  \/ ClickPrevious
  \/ CloseDetail
  \/ KeyDown
  \/ ClickFolder
  \/ FolderKeydown
  \/ ClickHome
  \/ PopState

ClientSpec == ClientInit /\ [][ClientNext]_vars

\* currentPhotoIndex is -1 or an index of currentPhotos, currentPhotos is
\* the photos of the current folder, and the detail view is hidden exactly
\* when the index is -1.
uiConsistent ==
  /\ currentPhotoIndex \in -1..(Len(currentPhotos) - 1)
  /\ detailHidden <=> currentPhotoIndex = -1
  /\ Len(folders) > 0 =>
       /\ currentFolderIndex \in 0..(Len(folders) - 1)
       /\ currentPhotos = folders[currentFolderIndex + 1].photos

\* A step of next or previous with a photo open stays in the folder and
\* moves by one, from the last photo to the first and from the first to the
\* last.
stepWraps ==
  (cpc' \in {"next", "previous"} /\ currentPhotoIndex # -1) =>
    /\ currentFolderIndex' = currentFolderIndex
    /\ currentPhotos' = currentPhotos
    /\ ~detailHidden'
    /\ currentPhotoIndex' =
         IF cpc' = "next"
         THEN (IF currentPhotoIndex = Len(currentPhotos) - 1 THEN 0
               ELSE currentPhotoIndex + 1)
         ELSE (IF currentPhotoIndex = 0 THEN Len(currentPhotos) - 1
               ELSE currentPhotoIndex - 1)

(***************************************************************************)
(* C30: after every handler of the client, currentPhotoIndex is -1 or an   *)
(* index of currentPhotos and the detail view is shown exactly when it is  *)
(* not -1; next and previous move by one photo within the current folder   *)
(* and wrap around at its ends.                                            *)
(***************************************************************************)
C30_DetailStateConsistent == []uiConsistent /\ [][stepWraps]_vars

\* Next was taken on the last of three photos and the first is shown.
C30_Witness ==
  /\ cpc = "next"
  /\ Len(currentPhotos) = 3
  /\ currentPhotoIndex = 0
  /\ ~detailHidden
  /\ [folderId |-> "day-1", photoId |-> "c"] \in historyStates
  /\ [folderId |-> "day-1", photoId |-> "a"] \in historyStates

====
